---------------------------- MODULE Spec2Model ----------------------------
(***************************************************************************)
(* Model of k8s-ingress-meta-sync: the IPRangeSet algebra (pkg/model), the *)
(* GitHub provider's TTL cache, the Cloudflare and Istio ingress targets   *)
(* and the SyncReconciler's reconcile cycle.                               *)
(*                                                                         *)
(* Two specifications share the state:                                     *)
(*   Spec      one reconcile cycle at a time; every provider / ingress     *)
(*             call is one atomic step (exact when nothing is concurrent). *)
(*   SpecConc  several goroutines calling FetchIPRanges / ApplyIPRanges    *)
(*             on ONE instance, one step per lock operation, external      *)
(*             call and field write.                                       *)
(* Time is a discrete clock `now`; one unit is an hour.                    *)
(***************************************************************************)
EXTENDS Integers, Sequences, FiniteSets, TLC

(***************************************************************************)
(* Bounds of the model.                                                    *)
(***************************************************************************)
\* the clock stops ticking at MaxTime
MaxTime == 1
\* reconcile cycles of Spec
MaxCycles == 2
\* failures of external calls injected in one run
MaxFaults == 1
\* goroutines of SpecConc are 1..NumProcs
NumProcs == 2
\* calls each goroutine of SpecConc makes
MaxCalls == 2
\* filters the remote firewall accepts before POST /filters fails
MaxFilters == 2

(***************************************************************************)
(* Program constants.  The clock's unit is one hour, the cacheTTL of the   *)
(* two ingress types; the GitHub provider's 15 minutes end within the hour *)
(* they start in.  Requeue delays are in minutes.                          *)
(***************************************************************************)
GitHubCacheTTL == 1
CloudflareCacheTTL == 1
IstioCacheTTL == 1
RequeueAfterSuccess == 1
RequeueAfterFailure == 5

(***************************************************************************)
(* Values.                                                                 *)
(***************************************************************************)
CidrA == "10.0.0.0/8"
CidrB == "10.1.0.0/16"
CidrBad == "10.0.0.0/33"

\* net.ParseCIDR succeeds
ValidCIDR(cidr) == cidr \in {CidrA, CidrB}

\* *model.IPRangeSet: nil, or a set whose Ranges is a sequence of IPRange
NilSet == [nil |-> TRUE, Ranges |-> <<>>]
MkSet(ranges) == [nil |-> FALSE, Ranges |-> ranges]
NewIPRangeSet == MkSet(<<>>)

IPRange(cidr, labels) == [CIDR |-> cidr, Labels |-> labels]

SeqToSet(s) == {s[i] : i \in 1..Len(s)}

(***************************************************************************)
(* pkg/model: IPRangeSet                                                   *)
(***************************************************************************)
\* variant: an Add that takes every string for a CIDR
AddUnchecked(s, cidr, labels) ==
    [err |-> FALSE, set |-> MkSet(Append(s.Ranges, IPRange(cidr, labels)))]

\* Add: [err, set]; an invalid CIDR leaves the set as it was
Add(s, cidr, labels) ==
    IF ~ValidCIDR(cidr)
    THEN [err |-> TRUE, set |-> s]
    ELSE [err |-> FALSE, set |-> MkSet(Append(s.Ranges, IPRange(cidr, labels)))]

\* a loop of Add calls whose errors are only logged
RECURSIVE AddAll(_, _, _)
AddAll(s, cidrs, labels) ==
    IF cidrs = <<>> THEN s
    ELSE AddAll(Add(s, Head(cidrs), labels).set, Tail(cidrs), labels)

LabelsIntersect(labels, wanted) ==
    \E i \in 1..Len(wanted) : \E j \in 1..Len(labels) : wanted[i] = labels[j]

\* variant: a Filter whose include list wins over its exclude list
FilterIncludeWins(ipRange, includeLabels, excludeLabels) ==
    \/ LabelsIntersect(ipRange.Labels, includeLabels)
    \/ (Len(includeLabels) = 0 /\ ~LabelsIntersect(ipRange.Labels, excludeLabels))

\* the include/exclude decision Filter takes for one range
FilterKeeps(ipRange, includeLabels, excludeLabels) ==
    LET include0 == (Len(includeLabels) = 0) \/ LabelsIntersect(ipRange.Labels, includeLabels)
    IN  IF LabelsIntersect(ipRange.Labels, excludeLabels) THEN FALSE ELSE include0

Filter(s, includeLabels, excludeLabels) ==
    MkSet(SelectSeq(s.Ranges, LAMBDA r : FilterKeeps(r, includeLabels, excludeLabels)))

\* variant: a Merge that leaves out the ranges whose CIDR the receiver has
MergeDistinct(s, other) ==
    MkSet(s.Ranges \o SelectSeq(other.Ranges,
            LAMBDA r : \A i \in 1..Len(s.Ranges) : s.Ranges[i].CIDR /= r.CIDR))

Merge(s, other) == MkSet(s.Ranges \o other.Ranges)

Count(s) == Len(s.Ranges)

GetCIDRs(s) == [i \in 1..Len(s.Ranges) |-> s.Ranges[i].CIDR]

\* the map Diff builds from a set: CIDR -> the last range with that CIDR
CidrMap(s) ==
    [c \in {s.Ranges[i].CIDR : i \in 1..Len(s.Ranges)} |->
        s.Ranges[CHOOSE i \in 1..Len(s.Ranges) :
            /\ s.Ranges[i].CIDR = c
            /\ \A j \in (i+1)..Len(s.Ranges) : s.Ranges[j].CIDR /= c]]

\* variant: a Diff that compares the ranges with their labels
DiffByRange(s, other) ==
    [added |-> SeqToSet(other.Ranges) \ SeqToSet(s.Ranges),
     removed |-> SeqToSet(s.Ranges) \ SeqToSet(other.Ranges)]

\* Diff appends in Go's map iteration order, which is unspecified: added and
\* removed are given as the sets of their members
Diff(s, other) ==
    LET thisMap == CidrMap(s)
        otherMap == CidrMap(other)
    IN  [added |-> {otherMap[c] : c \in (DOMAIN otherMap) \ (DOMAIN thisMap)},
         removed |-> {thisMap[c] : c \in (DOMAIN thisMap) \ (DOMAIN otherMap)}]

\* variant: an ApplyIPRanges without its "no changes" return
DiffNeverEmpty(d) == FALSE

\* added.Count() == 0 && removed.Count() == 0
DiffIsEmpty(d) == (Cardinality(d.added) = 0) /\ (Cardinality(d.removed) = 0)

(***************************************************************************)
(* The cache fields every provider / ingress instance carries:             *)
(* cachedData, lastFetch, cacheTTL.  A memo is [data, ts].                 *)
(***************************************************************************)
Memo(data, ts) == [data |-> data, ts |-> ts]

\* variant: a cache that is still valid at the age of the TTL
CacheValidLax(data, ts, t, ttl) == (~data.nil) /\ (t - ts <= ttl)

\* cachedData != nil && time.Since(lastFetch) < cacheTTL
CacheValid(data, ts, t, ttl) == (~data.nil) /\ (t - ts < ttl)

(***************************************************************************)
(* pkg/providers/github: GitHubProvider.FetchIPRanges, as one atomic call. *)
(* resp is what the metadata endpoint answers: [ok, doc], doc the decoded  *)
(* GitHubIPMetadata, here its Web and API lists.                           *)
(***************************************************************************)
\* variant: a conversion that processes the API list before the Web list
ConvertApiFirst(doc) ==
    AddAll(AddAll(NewIPRangeSet, doc.API, <<"api">>), doc.Web, <<"web">>)

\* the conversion of a decoded document into an IPRangeSet
ConvertMetadata(doc) ==
    AddAll(AddAll(NewIPRangeSet, doc.Web, <<"web">>), doc.API, <<"api">>)

\* variant: a fetch that falls back to the expired cache when the request
\* fails and a cache exists
FetchStaleOnError(m, t, resp) ==
    IF CacheValid(m.data, m.ts, t, GitHubCacheTTL)
    THEN [memo |-> m, out |-> m.data, err |-> FALSE, requests |-> 0]
    ELSE IF ~resp.ok
    THEN [memo |-> m, out |-> m.data, err |-> m.data.nil, requests |-> 1]
    ELSE [memo |-> Memo(ConvertMetadata(resp.doc), t), out |-> ConvertMetadata(resp.doc),
          err |-> FALSE, requests |-> 1]

FetchIPRanges(m, t, resp) ==
    IF CacheValid(m.data, m.ts, t, GitHubCacheTTL)
    THEN [memo |-> m, out |-> m.data, err |-> FALSE, requests |-> 0]
    ELSE IF ~resp.ok
    THEN [memo |-> m, out |-> NilSet, err |-> TRUE, requests |-> 1]
    ELSE LET ipRangeSet == ConvertMetadata(resp.doc)
         IN  [memo |-> Memo(ipRangeSet, t), out |-> ipRangeSet,
              err |-> FALSE, requests |-> 1]

(***************************************************************************)
(* Cloudflare ingress.  A filter expression is a sequence of tokens; the   *)
(* remote holds a list of filters [Description, Expression], a filter's ID *)
(* being its position, and the set of filter IDs that have a firewall      *)
(* rule.                                                                   *)
(***************************************************************************)
RuleName == "allow-github"

RECURSIVE JoinTokens(_, _)
JoinTokens(cidrs, sep) ==
    IF Len(cidrs) = 0 THEN <<>>
    ELSE IF Len(cidrs) = 1 THEN <<cidrs[1]>>
    ELSE <<cidrs[1], sep>> \o JoinTokens(Tail(cidrs), sep)

buildFilterExpression(ipRanges) ==
    LET cidrs == GetCIDRs(ipRanges)
    IN  IF Len(cidrs) = 0
        THEN <<"(ip.src eq 0.0.0.0/32)">>
        ELSE <<"(ip.src in ", "{">> \o JoinTokens(cidrs, " ") \o <<"}", ")">>

\* 0-based position of the first "{" (0 when there is none)
OpenBrace(expression) ==
    IF \E i \in 1..Len(expression) : expression[i] = "{"
    THEN (CHOOSE i \in 1..Len(expression) :
            expression[i] = "{" /\ \A j \in 1..(i-1) : expression[j] /= "{") - 1
    ELSE 0

\* 0-based position of the last "}" (0 when there is none)
CloseBrace(expression) ==
    IF \E i \in 1..Len(expression) : expression[i] = "}"
    THEN (CHOOSE i \in 1..Len(expression) :
            expression[i] = "}" /\ \A j \in (i+1)..Len(expression) : expression[j] /= "}") - 1
    ELSE 0

\* bytes.Fields: the tokens that are not white space
Fields(tokens) == SelectSeq(tokens, LAMBDA x : x /= " ")

\* variant: a parser that stops one token early
parseUpToLast(expression) ==
    AddAll(NewIPRangeSet,
           Fields(SubSeq(expression, OpenBrace(expression) + 2,
                         CloseBrace(expression) - 1)),
           <<"cloudflare">>)

parseFilterExpression(expression) ==
    LET openBrace == OpenBrace(expression)
        closeBrace == CloseBrace(expression)
    IN  IF openBrace = 0 \/ closeBrace = 0 \/ openBrace >= closeBrace
        THEN NewIPRangeSet
        ELSE AddAll(NewIPRangeSet,
                    Fields(SubSeq(expression, openBrace + 2, closeBrace)),
                    <<"cloudflare">>)

\* the set createFirewallRule and updateRule rebuild for the cache
RebuildFromExpression(expression) ==
    AddAll(NewIPRangeSet, GetCIDRs(parseFilterExpression(expression)), <<"cloudflare">>)

\* the ID of the first filter whose description is the rule name, 0 for ""
findFilterID(filters) ==
    IF \E i \in 1..Len(filters) : filters[i].Description = RuleName
    THEN CHOOSE i \in 1..Len(filters) :
            /\ filters[i].Description = RuleName
            /\ \A j \in 1..(i-1) : filters[j].Description /= RuleName
    ELSE 0

\* The external calls of the Cloudflare ingress that may fail.
CloudflareOps == {"list1", "get", "list2", "createFilter", "createRule", "update"}

\* GetCurrentIPRanges as one atomic call; F is the set of failing calls
CloudflareGetCurrentIPRanges(m, filters, t, F) ==
    IF CacheValid(m.data, m.ts, t, CloudflareCacheTTL)
    THEN [memo |-> m, out |-> m.data, err |-> FALSE]
    ELSE IF "list1" \in F
    THEN [memo |-> m, out |-> NilSet, err |-> TRUE]
    ELSE LET filterID == findFilterID(filters)
         IN  IF filterID = 0
             THEN [memo |-> Memo(NewIPRangeSet, t), out |-> NewIPRangeSet, err |-> FALSE]
             ELSE IF "get" \in F
             THEN [memo |-> m, out |-> NilSet, err |-> TRUE]
             ELSE LET ipRanges == parseFilterExpression(filters[filterID].Expression)
                  IN  [memo |-> Memo(ipRanges, t), out |-> ipRanges, err |-> FALSE]

\* the expression of the Filter createFirewallRule puts in its rule: only
\* the ID is set
RuleFilterExpression == <<>>

\* createFirewallRule: POST /firewall/rules, then the cache update
createFirewallRule(m, filters, rules, filterID, t, F, writes) ==
    IF "createRule" \in F
    THEN [memo |-> m, filters |-> filters, rules |-> rules, err |-> TRUE,
          writes |-> Append(writes, "POST rules")]
    ELSE [memo |-> Memo(RebuildFromExpression(RuleFilterExpression), t),
          filters |-> filters, rules |-> rules \cup {filterID}, err |-> FALSE,
          writes |-> Append(writes, "POST rules")]

\* createRule: POST /filters, then createFirewallRule
createRule(m, filters, rules, expression, t, F) ==
    IF "createFilter" \in F \/ Len(filters) >= MaxFilters
    THEN [memo |-> m, filters |-> filters, rules |-> rules, err |-> TRUE,
          writes |-> <<"POST filters">>]
    ELSE createFirewallRule(m,
            Append(filters, [Description |-> RuleName, Expression |-> expression]),
            rules, Len(filters) + 1, t, F, <<"POST filters">>)

\* updateRule: PUT /filters/<id> with {id, expression, paused, description: ""};
\* keepDesc says whether the remote keeps the stored description
updateRule(m, filters, rules, filterID, expression, t, F, keepDesc) ==
    IF "update" \in F
    THEN [memo |-> m, filters |-> filters, rules |-> rules, err |-> TRUE,
          writes |-> <<"PUT filter">>]
    ELSE [memo |-> Memo(RebuildFromExpression(expression), t),
          filters |-> [filters EXCEPT ![filterID] =
                [Description |-> IF keepDesc THEN @.Description ELSE "",
                 Expression |-> expression]],
          rules |-> rules, err |-> FALSE, writes |-> <<"PUT filter">>]

createOrUpdateRule(m, filters, rules, ipRanges, t, F, keepDesc) ==
    IF "list2" \in F
    THEN [memo |-> m, filters |-> filters, rules |-> rules, err |-> TRUE, writes |-> <<>>]
    ELSE LET filterID == findFilterID(filters)
             expression == buildFilterExpression(ipRanges)
         IN  IF filterID = 0
             THEN createRule(m, filters, rules, expression, t, F)
             ELSE updateRule(m, filters, rules, filterID, expression, t, F, keepDesc)

\* variant: a dispatch that knows the strategy "direct" only
replacesRuleDirectOnly(strategy, currentRanges) ==
    strategy = "direct" \/ Count(currentRanges) = 0

\* ApplyIPRanges' dispatch on the update strategy: both branches replace the
\* entire rule; any other strategy is an error
replacesRule(strategy, currentRanges) ==
    \/ strategy = "direct" \/ Count(currentRanges) = 0
    \/ strategy = "incremental"

\* ApplyIPRanges once GetCurrentIPRanges has answered cur
CloudflareApplyFrom(cur, filters, rules, strategy, ipRanges, t, F, keepDesc) ==
        IF cur.err
        THEN [memo |-> cur.memo, filters |-> filters, rules |-> rules, err |-> TRUE,
              writes |-> <<>>, current |-> NilSet]
        ELSE IF DiffIsEmpty(Diff(cur.out, ipRanges))
        THEN [memo |-> cur.memo, filters |-> filters, rules |-> rules, err |-> FALSE,
              writes |-> <<>>, current |-> cur.out]
        ELSE IF replacesRule(strategy, cur.out)
        THEN [current |-> cur.out] @@
             createOrUpdateRule(cur.memo, filters, rules, ipRanges, t, F, keepDesc)
        ELSE [memo |-> cur.memo, filters |-> filters, rules |-> rules, err |-> TRUE,
              writes |-> <<>>, current |-> cur.out]

\* ApplyIPRanges as one atomic call: [memo, filters, rules, err, writes, current]
CloudflareApplyIPRanges(m, filters, rules, strategy, ipRanges, t, F, keepDesc) ==
    CloudflareApplyFrom(CloudflareGetCurrentIPRanges(m, filters, t, F),
                        filters, rules, strategy, ipRanges, t, F, keepDesc)

(***************************************************************************)
(* Istio ingress.  The remote holds one ConfigMap [exists, data], data the *)
(* JSON text under "ip_ranges" as a sequence of tokens, and one            *)
(* EnvoyFilter [exists, cidrs], cidrs the prefix_range list of its Lua     *)
(* code.                                                                   *)
(***************************************************************************)
\* json.Marshal of a []string
JsonMarshal(ranges) == <<"[">> \o JoinTokens(ranges, ",") \o <<"]">>

\* json.Unmarshal into a []string: [err, ranges]
JsonUnmarshal(tokens) ==
    IF Len(tokens) >= 2 /\ tokens[1] = "[" /\ tokens[Len(tokens)] = "]"
    THEN [err |-> FALSE,
          ranges |-> SelectSeq(SubSeq(tokens, 2, Len(tokens) - 1), LAMBDA x : x /= ",")]
    ELSE [err |-> TRUE, ranges |-> <<>>]

\* The external calls of the Istio ingress that may fail.
IstioOps == {"getCM1", "getCM2", "writeCM", "getEF", "writeEF"}

\* GetCurrentIPRanges as one atomic call: any error of the Get is taken as
\* "the ConfigMap doesn't exist yet"
IstioGetCurrentIPRanges(m, cm, t, F) ==
    IF CacheValid(m.data, m.ts, t, IstioCacheTTL)
    THEN [memo |-> m, out |-> m.data, err |-> FALSE]
    ELSE IF "getCM1" \in F \/ ~cm.exists
    THEN [memo |-> Memo(NewIPRangeSet, t), out |-> NewIPRangeSet, err |-> FALSE]
    ELSE LET parsed == JsonUnmarshal(cm.data)
         IN  IF parsed.err
             THEN [memo |-> m, out |-> NilSet, err |-> TRUE]
             ELSE LET ipRanges == AddAll(NewIPRangeSet, parsed.ranges, <<"istio">>)
                  IN  [memo |-> Memo(ipRanges, t), out |-> ipRanges, err |-> FALSE]

\* updateConfigMap: Get, then Create or Update, then the cache update
updateConfigMap(m, cm, ipRanges, t, F) ==
    LET rangesJSON == JsonMarshal(GetCIDRs(ipRanges))
    IN  IF "getCM2" \in F \/ ~cm.exists
        THEN IF "writeCM" \in F \/ cm.exists
             THEN [memo |-> m, cm |-> cm, err |-> TRUE, writes |-> <<"Create ConfigMap">>]
             ELSE [memo |-> Memo(ipRanges, t),
                   cm |-> [exists |-> TRUE, data |-> rangesJSON],
                   err |-> FALSE, writes |-> <<"Create ConfigMap">>]
        ELSE IF "writeCM" \in F
             THEN [memo |-> m, cm |-> cm, err |-> TRUE, writes |-> <<"Update ConfigMap">>]
             ELSE [memo |-> Memo(ipRanges, t),
                   cm |-> [exists |-> TRUE, data |-> rangesJSON],
                   err |-> FALSE, writes |-> <<"Update ConfigMap">>]

\* updateEnvoyFilter: nothing for an empty set; else Get, then Create or Update
updateEnvoyFilter(ef, ipRanges, F) ==
    IF Count(ipRanges) = 0
    THEN [ef |-> ef, err |-> FALSE, writes |-> <<>>]
    ELSE IF "getEF" \in F \/ ~ef.exists
    THEN IF "writeEF" \in F \/ ef.exists
         THEN [ef |-> ef, err |-> TRUE, writes |-> <<"Create EnvoyFilter">>]
         ELSE [ef |-> [exists |-> TRUE, cidrs |-> GetCIDRs(ipRanges)],
               err |-> FALSE, writes |-> <<"Create EnvoyFilter">>]
    ELSE IF "writeEF" \in F
         THEN [ef |-> ef, err |-> TRUE, writes |-> <<"Update EnvoyFilter">>]
         ELSE [ef |-> [exists |-> TRUE, cidrs |-> GetCIDRs(ipRanges)],
               err |-> FALSE, writes |-> <<"Update EnvoyFilter">>]

\* ApplyIPRanges once updateConfigMap has answered u
IstioApplyUpdated(cur, u, ef, xff, ipRanges, F) ==
    IF u.err \/ ~xff
    THEN [memo |-> u.memo, cm |-> u.cm, ef |-> ef, err |-> u.err,
          writes |-> u.writes, current |-> cur.out]
    ELSE LET e == updateEnvoyFilter(ef, ipRanges, F)
         IN  [memo |-> u.memo, cm |-> u.cm, ef |-> e.ef, err |-> e.err,
              writes |-> u.writes \o e.writes, current |-> cur.out]

\* ApplyIPRanges once GetCurrentIPRanges has answered cur
IstioApplyFrom(cur, cm, ef, xff, ipRanges, t, F) ==
    IF cur.err
    THEN [memo |-> cur.memo, cm |-> cm, ef |-> ef, err |-> TRUE,
          writes |-> <<>>, current |-> NilSet]
    ELSE IF DiffIsEmpty(Diff(cur.out, ipRanges))
    THEN [memo |-> cur.memo, cm |-> cm, ef |-> ef, err |-> FALSE,
          writes |-> <<>>, current |-> cur.out]
    ELSE IstioApplyUpdated(cur, updateConfigMap(cur.memo, cm, ipRanges, t, F),
                           ef, xff, ipRanges, F)

\* ApplyIPRanges as one atomic call: [memo, cm, ef, err, writes, current]
IstioApplyIPRanges(m, cm, ef, xff, ipRanges, t, F) ==
    IstioApplyFrom(IstioGetCurrentIPRanges(m, cm, t, F), cm, ef, xff, ipRanges, t, F)

(***************************************************************************)
(* The world of the controller.                                            *)
(***************************************************************************)
Providers == {"s1", "s2"}
Ingresses == {"cf", "istio"}
Instances == Providers \cup Ingresses
Procs == 1..NumProcs

\* IngressConfig.Spec.Type of the two ingress configurations
IngressType(name) == IF name = "cf" THEN "cloudflare" ELSE "istio"

\* documents the metadata endpoint serves
DocNone == [Web |-> <<>>, API |-> <<>>]
Docs ==
    {[Web |-> <<CidrA>>, API |-> <<CidrB>>],
     [Web |-> <<CidrBad>>, API |-> <<>>]}

\* SyncConfig.Spec values the cycles reconcile
ProviderRefs ==
    <<[Name |-> "s1", IncludeRanges |-> <<"web">>, ExcludeRanges |-> <<>>],
      [Name |-> "s2", IncludeRanges |-> <<>>, ExcludeRanges |-> <<>>]>>
SyncSpecs ==
    {[Providers |-> ProviderRefs, Ingress |-> ing, FailureMode |-> fm] :
        ing \in {<<"cf", "istio">>, <<"istio", "cf">>}, fm \in {"continue", "fail"}}
    \cup {[Providers |-> <<ProviderRefs[2]>>, Ingress |-> <<"cf", "istio">>,
            FailureMode |-> "continue"]}

\* the cluster the controller starts in: the options of the two IngressConfigs
\* (Cloudflare's updateStrategy, Istio's xForwardedFor) and whether the remote
\* already holds the rule and the ConfigMap
Worlds ==
    {[updateStrategy |-> "direct", xForwardedFor |-> TRUE, pre |-> FALSE],
     [updateStrategy |-> "incremental", xForwardedFor |-> TRUE, pre |-> TRUE],
     [updateStrategy |-> "direct", xForwardedFor |-> FALSE, pre |-> TRUE]}

\* syncConfig.Spec.SyncPolicy != nil && syncConfig.Spec.SyncPolicy.FailureMode == "fail"
FailFast(spec) == spec.FailureMode = "fail"

NoTime == 0 - 1
EmptyStatus ==
    [LastSyncTime |-> NoTime, LastSuccessfulSync |-> NoTime, Conditions |-> <<>>,
     ProviderStatus |-> <<>>, IngressStatus |-> <<>>]

\* a ProviderSyncStatus / IngressSyncStatus (its LastSyncTime is left out)
ItemStatus(name, status, error, count) ==
    [Name |-> name, Status |-> status, Error |-> error, IPRangesCount |-> count]

\* variant: an item whose Status is left as the loop body first set it
syncStatusUnset(name, failed, error, count) ==
    IF failed THEN ItemStatus(name, "Pending", error, 0)
    ELSE ItemStatus(name, "Success", "", count)

\* the item a loop iteration appends: created "Pending", then given Error and
\* Status "Error" on a failing branch, Status "Success" and the count otherwise
syncStatus(name, failed, error, count) ==
    LET pending == ItemStatus(name, "Pending", "", 0)
    IN  IF failed THEN [pending EXCEPT !.Error = error, !.Status = "Error"]
        ELSE [pending EXCEPT !.Status = "Success", !.IPRangesCount = count]

VARIABLES
    now,                    \* the clock
    faults,                 \* failures of external calls so far
    cachedData,             \* instance name -> cachedData
    lastFetch,              \* instance name -> lastFetch
    ProviderCache,          \* names r.ProviderCache holds an instance for
    IngressCache,           \* names r.IngressCache holds an instance for
    config,                 \* the two IngressConfigs' Spec as the API server holds it
    updateStrategy,         \* the Cloudflare instance's updateStrategy, from its Init
    xForwardedFor,          \* the Istio instance's xForwardedFor, from its Init
    filters,                \* Cloudflare: the zone's filters
    rules,                  \* Cloudflare: filter IDs with a firewall rule
    configMap,              \* Istio: the <name>-ip-ranges ConfigMap
    envoyFilter,            \* Istio: the <name>-ip-ranges-xff EnvoyFilter
    stored,                 \* the SyncConfig's Status in the API server
    syncConfig,             \* the cycle's in-memory SyncConfig [Spec, Status]
    cycle,                  \* cycles started
    pc,                     \* where the cycle is
    idx,                    \* index of the next reference of the running loop
    allRanges,              \* collectProviderIPRanges' aggregate
    updatedProviderStatus,
    updatedIngressStatus,
    errMsg,                 \* the error the aborted phase returned
    result,                 \* what Reconcile returned: [RequeueAfter, err]
    calls,                  \* history: the loop iterations of this cycle
    lastApply,              \* history: ingress name -> its latest ApplyIPRanges
    prevApply,              \* history: ingress name -> the one before
    inst,                   \* SpecConc: the instance the goroutines share
    mutexW,                 \* SpecConc: cacheMutex' writer (0: none)
    mutexR,                 \* SpecConc: cacheMutex' readers
    gpc,                    \* SpecConc: goroutine -> where it is
    loc,                    \* SpecConc: goroutine -> its locals
    stamp,                  \* SpecConc: the writes cachedData and lastFetch are from
    gen,                    \* SpecConc: number of cache updates completed
    lastReq,                \* SpecConc: the latest request of a cache refresh
    ipSet,                  \* SpecUnit: an IPRangeSet, the receiver of the calls
    otherSet,               \* SpecUnit: a second IPRangeSet, their argument
    ret,                    \* SpecUnit: the latest call, its inputs and results
    instanceOf,             \* SpecReg: r.ProviderCache, name -> instance (0: none)
    made,                   \* SpecReg: name -> instances constructed and initialized
    getter,                 \* SpecReg: goroutine -> its getOrCreateProvider call
    raced                   \* SpecReg: the map was accessed during a write of it

remoteVars == <<filters, rules, configMap, envoyFilter>>
cacheVars == <<cachedData, lastFetch>>
registryVars == <<ProviderCache, IngressCache, config, updateStrategy, xForwardedFor>>
cycleVars ==
    <<stored, syncConfig, cycle, pc, idx, allRanges, updatedProviderStatus,
      updatedIngressStatus, errMsg, result, calls, lastApply, prevApply>>
concVars == <<inst, mutexW, mutexR, gpc, loc, stamp, gen, lastReq>>
unitVars == <<ipSet, otherSet, ret>>
regVars == <<instanceOf, made, getter, raced>>
vars == <<now, faults, cacheVars, registryVars, remoteVars, cycleVars, concVars,
          unitVars, regVars>>

NoCall == [op |-> "none"]
NoGetter == [pc |-> "idle", name |-> "", mine |-> 0, got |-> 0, err |-> FALSE, calls |-> 0]
NoWrite == <<0, 0, "">>
NoLoc ==
    [calls |-> 0, phase |-> "", kind |-> "", err |-> FALSE, desired |-> NilSet,
     cur |-> NilSet, out |-> NilSet, filterID |-> 0, requests |-> 0, ts |-> 0,
     checked |-> FALSE, rechecked |-> FALSE, chkNil |-> FALSE, chkAge |-> 0,
     rivals |-> {}, reqGen |-> 0, dup |-> FALSE, justified |-> TRUE]

\* what the remote holds when the controller starts: nothing, or the range
\* 10.0.0.0/8 under the configured names
PreFilters(pre) ==
    IF pre
    THEN <<[Description |-> RuleName,
            Expression |-> <<"(ip.src in ", "{", CidrA, "}", ")">>]>>
    ELSE <<>>
PreConfigMap(pre) ==
    IF pre THEN [exists |-> TRUE, data |-> <<"[", CidrA, "]">>]
    ELSE [exists |-> FALSE, data |-> <<>>]

InitCommon ==
    /\ now = 0
    /\ faults = 0
    /\ cachedData = [i \in Instances |-> NilSet]
    /\ lastFetch = [i \in Instances |-> 0]
    /\ rules = {}
    /\ envoyFilter = [exists |-> FALSE, cidrs |-> <<>>]
    /\ stored = EmptyStatus
    /\ cycle = 0
    /\ pc = "idle"
    /\ idx = 1
    /\ allRanges = NewIPRangeSet
    /\ updatedProviderStatus = <<>>
    /\ updatedIngressStatus = <<>>
    /\ errMsg = ""
    /\ result = [RequeueAfter |-> 0, err |-> FALSE]
    /\ calls = <<>>
    /\ lastApply = [i \in Ingresses |-> NoCall]
    /\ prevApply = [i \in Ingresses |-> NoCall]
    /\ mutexW = 0
    /\ mutexR = {}
    /\ gpc = [p \in Procs |-> "idle"]
    /\ loc = [p \in Procs |-> NoLoc]
    /\ instanceOf = [n \in Providers |-> 0]
    /\ made = [n \in Providers |-> 0]
    /\ getter = [p \in Procs |-> NoGetter]
    /\ raced = FALSE
    /\ stamp = [val |-> NoWrite, ts |-> NoWrite]
    /\ gen = 0
    /\ lastReq = [some |-> FALSE, ok |-> FALSE, t |-> 0]
    /\ ipSet = NewIPRangeSet
    /\ otherSet = NewIPRangeSet
    /\ ret = [op |-> "NewIPRangeSet"]

Init ==
    /\ InitCommon
    /\ \E spec \in SyncSpecs : syncConfig = [Spec |-> spec, Status |-> EmptyStatus]
    /\ \E w \in Worlds :
        /\ config = [updateStrategy |-> w.updateStrategy, xForwardedFor |-> w.xForwardedFor]
        /\ updateStrategy = w.updateStrategy
        /\ xForwardedFor = w.xForwardedFor
        /\ filters = PreFilters(w.pre)
        /\ configMap = PreConfigMap(w.pre)
    /\ ProviderCache = {}
    /\ IngressCache = {}
    /\ inst = "none"

\* the failures the environment may still inject
MayFail(S) == IF faults < MaxFaults THEN S ELSE {}

(***************************************************************************)
(* SyncReconciler.Reconcile, one cycle at a time.                          *)
(***************************************************************************)
\* variant: a condition whose transition time is set by every call
setStatusConditionStamped(status, conditionType, condStatus, reason, message, t) ==
    [status EXCEPT !.Conditions =
        SelectSeq(@, LAMBDA c : c.Type /= conditionType)
        \o <<[Type |-> conditionType, Status |-> condStatus, LastTransitionTime |-> t,
              Reason |-> reason, Message |-> message]>>]

\* setStatusCondition
setStatusCondition(status, conditionType, condStatus, reason, message, t) ==
    IF \E i \in 1..Len(status.Conditions) : status.Conditions[i].Type = conditionType
    THEN LET i == CHOOSE k \in 1..Len(status.Conditions) :
                    /\ status.Conditions[k].Type = conditionType
                    /\ \A j \in 1..(k-1) : status.Conditions[j].Type /= conditionType
             old == status.Conditions[i]
         IN  [status EXCEPT !.Conditions[i] =
                [Type |-> conditionType, Status |-> condStatus,
                 LastTransitionTime |-> IF old.Status /= condStatus THEN t
                                        ELSE old.LastTransitionTime,
                 Reason |-> reason, Message |-> message]]
    ELSE [status EXCEPT !.Conditions = Append(@,
                [Type |-> conditionType, Status |-> condStatus,
                 LastTransitionTime |-> t, Reason |-> reason, Message |-> message])]

\* Reconcile up to the call of collectProviderIPRanges: the SyncConfig is read
\* with the Status the API server holds
BeginCycle ==
    /\ pc \in {"idle", "done"}
    /\ cycle < MaxCycles
    /\ cycle' = cycle + 1
    /\ syncConfig' = [syncConfig EXCEPT !.Status = [stored EXCEPT !.LastSyncTime = now]]
    /\ pc' = "collect"
    /\ idx' = 1
    /\ allRanges' = NewIPRangeSet
    /\ updatedProviderStatus' = <<>>
    /\ updatedIngressStatus' = <<>>
    /\ errMsg' = ""
    /\ calls' = <<>>
    /\ UNCHANGED <<now, faults, cacheVars, registryVars, remoteVars, stored, result,
                   lastApply, prevApply, concVars, unitVars, regVars>>

\* the loop body once FetchIPRanges has answered f: the error path, or the filter
providerFetched(ref, f) ==
    IF f.err
    THEN [failed |-> TRUE, error |-> "Unable to fetch IP ranges", memo |-> f.memo,
          created |-> TRUE, called |-> TRUE, out |-> NilSet, filtered |-> NewIPRangeSet]
    ELSE [failed |-> FALSE, error |-> "", memo |-> f.memo, created |-> TRUE,
          called |-> TRUE, out |-> f.out,
          filtered |->
             IF Len(ref.IncludeRanges) > 0 \/ Len(ref.ExcludeRanges) > 0
             THEN Filter(f.out, ref.IncludeRanges, ref.ExcludeRanges)
             ELSE f.out]

\* one iteration of collectProviderIPRanges' loop, up to the status append;
\* fault is the external call that fails ("none": none), doc the document
\* the endpoint serves
providerStep(ref, cached, m, t, fault, doc) ==
    LET none == [failed |-> TRUE, error |-> "", memo |-> m, created |-> FALSE,
                 called |-> FALSE, out |-> NilSet, filtered |-> NewIPRangeSet]
    IN  IF fault = "cfg"
        THEN [none EXCEPT !.error = "Unable to fetch ProviderConfig"]
        ELSE IF ~cached /\ fault = "create"
        THEN [none EXCEPT !.error = "Unable to create provider"]
        ELSE providerFetched(ref, FetchIPRanges(m, t, [ok |-> fault /= "fetch",
                                                       doc |-> doc]))

\* variant: a range loop that is left after its first iteration
rangeEndsAtFirst(i, refs) == TRUE

\* for _, ref := range refs: the iteration at index i was the last one
rangeEnds(i, refs) == i = Len(refs)

\* variant: a loop that goes on after every failure
AbortsNever(failed, spec) == FALSE

\* the loop's reaction to a failed provider: return the error, or continue
collectAborts(failed, spec) == failed /\ FailFast(spec)

\* variant: a loop that puts each provider's ranges before the earlier ones
MergeInFront(all, failed, filtered) == IF failed THEN all ELSE Merge(filtered, all)

\* variant: a loop where the failure of one provider empties the aggregate
MergeOrReset(all, failed, filtered) ==
    IF failed THEN NewIPRangeSet ELSE Merge(all, filtered)

\* allRanges = allRanges.Merge(filteredRanges), for a provider that succeeded
collectMerge(all, failed, filtered) == IF failed THEN all ELSE Merge(all, filtered)

SourceStep ==
    /\ pc = "collect"
    /\ idx <= Len(syncConfig.Spec.Providers)
    /\ LET ref == syncConfig.Spec.Providers[idx]
           name == ref.Name
           cached == name \in ProviderCache
           m == Memo(cachedData[name], lastFetch[name])
           fresh == CacheValid(m.data, m.ts, now, GitHubCacheTTL)
       IN  \E fault \in {"none"} \cup MayFail({"cfg"} \cup (IF cached THEN {} ELSE {"create"})
                                            \cup (IF fresh THEN {} ELSE {"fetch"})),
              doc \in (IF fresh THEN {DocNone} ELSE Docs) :
          \E st \in {providerStep(ref, cached, m, now, fault, doc)} :
            LET item == syncStatus(name, st.failed, st.error, Count(st.filtered))
                ups == Append(updatedProviderStatus, item)
            IN  /\ (fault /= "none") => (doc = CHOOSE d \in (IF fresh THEN {DocNone} ELSE Docs) : TRUE)
                /\ faults' = IF fault = "none" THEN faults ELSE faults + 1
                /\ cachedData' = [cachedData EXCEPT ![name] = st.memo.data]
                /\ lastFetch' = [lastFetch EXCEPT ![name] = st.memo.ts]
                /\ ProviderCache' = IF st.created THEN ProviderCache \cup {name}
                                    ELSE ProviderCache
                /\ calls' = Append(calls, [op |-> "fetch", name |-> name, fault |-> fault,
                                           called |-> st.called, out |-> st.out,
                                           err |-> st.failed])
                /\ updatedProviderStatus' = ups
                /\ allRanges' = collectMerge(allRanges, st.failed, st.filtered)
                /\ IF collectAborts(st.failed, syncConfig.Spec)
                   THEN /\ pc' = "providerError"
                        /\ errMsg' = st.error
                        /\ UNCHANGED <<idx, syncConfig>>
                   ELSE IF rangeEnds(idx, syncConfig.Spec.Providers)
                   THEN /\ pc' = "apply"
                        /\ idx' = 1
                        /\ syncConfig' = [syncConfig EXCEPT !.Status.ProviderStatus = ups]
                        /\ UNCHANGED errMsg
                   ELSE /\ idx' = idx + 1
                        /\ UNCHANGED <<pc, syncConfig, errMsg>>
    /\ UNCHANGED <<now, IngressCache, config, updateStrategy, xForwardedFor, remoteVars, stored,
                   cycle, updatedIngressStatus, result, lastApply, prevApply, concVars, unitVars, regVars>>

\* the world w = [memo, filters, rules, cm, ef, strategy, xff] after an
\* ApplyIPRanges that answered a
cloudflareApplied(w, a) ==
    [w EXCEPT !.memo = a.memo, !.filters = a.filters, !.rules = a.rules]
    @@ [err |-> a.err, writes |-> a.writes, current |-> a.current]
istioApplied(w, a) ==
    [w EXCEPT !.memo = a.memo, !.cm = a.cm, !.ef = a.ef]
    @@ [err |-> a.err, writes |-> a.writes, current |-> a.current]

\* ApplyIPRanges of the instance of the given ingress type, on the world w
ApplyIPRanges(type, w, ipRanges, t, F, keepDesc) ==
    IF type = "cloudflare"
    THEN cloudflareApplied(w, CloudflareApplyIPRanges(w.memo, w.filters, w.rules,
                                    w.strategy, ipRanges, t, F, keepDesc))
    ELSE istioApplied(w, IstioApplyIPRanges(w.memo, w.cm, w.ef, w.xff, ipRanges, t, F))

\* the loop body once ApplyIPRanges has answered a
ingressApplied(a) ==
    a @@ [failed |-> a.err,
          error |-> IF a.err THEN "Unable to apply IP ranges" ELSE "",
          created |-> TRUE, called |-> TRUE]

\* one iteration of applyIPRangesToIngress' loop, up to the status append;
\* fault is the external call that fails ("none": none)
ingressStep(type, cached, w, ipRanges, t, fault, keepDesc) ==
    LET none == w @@ [failed |-> TRUE, error |-> "", created |-> FALSE, called |-> FALSE,
                      err |-> TRUE, writes |-> <<>>, current |-> NilSet]
    IN  IF fault = "cfg"
        THEN [none EXCEPT !.error = "Unable to fetch IngressConfig"]
        ELSE IF ~cached /\ fault = "create"
        THEN [none EXCEPT !.error = "Unable to create ingress"]
        ELSE ingressApplied(ApplyIPRanges(type, w, ipRanges, t, {fault} \ {"none"},
                                          keepDesc))

\* variant: an instance whose options follow the configuration
optionFromConfig(cached, held, configured) == configured

\* getOrCreateIngress: an instance found in r.IngressCache is returned as it
\* is, with the options of its Init; a new one is initialized with the
\* options of the IngressConfig just read
instanceOption(cached, held, configured) == IF cached THEN held ELSE configured

\* variant: a loop that applies to the remaining ingresses after a failure
AppliesOn(failed, spec) == FALSE

\* the loop's reaction to a failed ingress: return the error, or continue
applyAborts(failed, spec) == failed /\ FailFast(spec)

TargetStep ==
    /\ pc = "apply"
    /\ idx <= Len(syncConfig.Spec.Ingress)
    /\ LET name == syncConfig.Spec.Ingress[idx]
           type == IngressType(name)
           cached == name \in IngressCache
           ops == IF type = "cloudflare" THEN CloudflareOps ELSE IstioOps
       IN  \E fault \in {"none"} \cup MayFail({"cfg"} \cup (IF cached THEN {} ELSE {"create"})
                                            \cup ops),
              keepDesc \in (IF type = "cloudflare" THEN BOOLEAN ELSE {TRUE}) :
          \E st \in {ingressStep(type, cached,
                                  [memo |-> Memo(cachedData[name], lastFetch[name]),
                                   filters |-> filters, rules |-> rules,
                                   cm |-> configMap, ef |-> envoyFilter,
                                   strategy |-> instanceOption(cached, updateStrategy,
                                                               config.updateStrategy),
                                   xff |-> instanceOption(cached, xForwardedFor,
                                                          config.xForwardedFor)],
                                  allRanges, now, fault, keepDesc)} :
            LET item == syncStatus(name, st.failed, st.error, Count(allRanges))
                ups == Append(updatedIngressStatus, item)
                ev == [op |-> "apply", name |-> name, fault |-> fault,
                       called |-> st.called, desired |-> allRanges,
                       current |-> st.current, writes |-> st.writes, err |-> st.failed]
            IN  /\ faults' = IF fault = "none" THEN faults ELSE faults + 1
                /\ cachedData' = [cachedData EXCEPT ![name] = st.memo.data]
                /\ lastFetch' = [lastFetch EXCEPT ![name] = st.memo.ts]
                /\ filters' = st.filters
                /\ rules' = st.rules
                /\ configMap' = st.cm
                /\ envoyFilter' = st.ef
                /\ IngressCache' = IF st.created THEN IngressCache \cup {name}
                                   ELSE IngressCache
                /\ updateStrategy' = IF st.created /\ type = "cloudflare" THEN st.strategy
                                     ELSE updateStrategy
                /\ xForwardedFor' = IF st.created /\ type = "istio" THEN st.xff
                                    ELSE xForwardedFor
                /\ calls' = Append(calls, ev)
                /\ lastApply' = IF st.called THEN [lastApply EXCEPT ![name] = ev]
                                ELSE lastApply
                /\ prevApply' = IF st.called THEN [prevApply EXCEPT ![name] = lastApply[name]]
                                ELSE prevApply
                /\ updatedIngressStatus' = ups
                /\ IF applyAborts(st.failed, syncConfig.Spec)
                   THEN /\ pc' = "ingressError"
                        /\ errMsg' = st.error
                        /\ UNCHANGED <<idx, syncConfig>>
                   ELSE IF rangeEnds(idx, syncConfig.Spec.Ingress)
                   THEN /\ pc' = "success"
                        /\ syncConfig' = [syncConfig EXCEPT !.Status.IngressStatus = ups]
                        /\ UNCHANGED <<idx, errMsg>>
                   ELSE /\ idx' = idx + 1
                        /\ UNCHANGED <<pc, syncConfig, errMsg>>
    /\ UNCHANGED <<now, ProviderCache, config, stored, cycle,
                   allRanges, updatedProviderStatus, result, concVars, unitVars, regVars>>

\* variant: a success branch that only logs a failed status update, as the
\* two error branches do
resultIgnoresUpdate(phaseFailed, updateFails) ==
    IF phaseFailed THEN [RequeueAfter |-> RequeueAfterFailure, err |-> TRUE]
    ELSE [RequeueAfter |-> 0, err |-> FALSE]

\* what Reconcile returns: after a phase returned an error, after the status
\* update of the success branch failed, after it went through
reconcileResult(phaseFailed, updateFails) ==
    IF phaseFailed THEN [RequeueAfter |-> RequeueAfterFailure, err |-> TRUE]
    ELSE IF updateFails THEN [RequeueAfter |-> 0, err |-> TRUE]
    ELSE [RequeueAfter |-> RequeueAfterSuccess, err |-> FALSE]

\* Reconcile after collectProviderIPRanges returned an error
FinalizeProviderError ==
    /\ pc = "providerError"
    /\ \E updateFails \in {FALSE} \cup MayFail({TRUE}) :
        LET status == setStatusCondition(syncConfig.Status, "Ready", "False",
                                         "ProviderError", errMsg, now)
        IN  /\ syncConfig' = [syncConfig EXCEPT !.Status = status]
            /\ stored' = IF updateFails THEN stored ELSE status
            /\ faults' = IF updateFails THEN faults + 1 ELSE faults
            /\ calls' = Append(calls, [op |-> "update", failed |-> updateFails])
    /\ result' = reconcileResult(TRUE, FALSE)
    /\ pc' = "done"
    /\ UNCHANGED <<now, cacheVars, registryVars, remoteVars, cycle, idx, allRanges,
                   updatedProviderStatus, updatedIngressStatus, errMsg,
                   lastApply, prevApply, concVars, unitVars, regVars>>

\* Reconcile after applyIPRangesToIngress returned an error
FinalizeIngressError ==
    /\ pc = "ingressError"
    /\ \E updateFails \in {FALSE} \cup MayFail({TRUE}) :
        LET status == setStatusCondition(syncConfig.Status, "Ready", "False",
                                         "IngressError", errMsg, now)
        IN  /\ syncConfig' = [syncConfig EXCEPT !.Status = status]
            /\ stored' = IF updateFails THEN stored ELSE status
            /\ faults' = IF updateFails THEN faults + 1 ELSE faults
            /\ calls' = Append(calls, [op |-> "update", failed |-> updateFails])
    /\ result' = reconcileResult(TRUE, FALSE)
    /\ pc' = "done"
    /\ UNCHANGED <<now, cacheVars, registryVars, remoteVars, cycle, idx, allRanges,
                   updatedProviderStatus, updatedIngressStatus, errMsg,
                   lastApply, prevApply, concVars, unitVars, regVars>>

\* Reconcile after both phases returned nil
FinalizeSuccess ==
    /\ pc = "success"
    /\ \E updateFails \in {FALSE} \cup MayFail({TRUE}) :
        LET status == setStatusCondition(
                        [syncConfig.Status EXCEPT !.LastSuccessfulSync = now],
                        "Ready", "True", "SyncSuccessful",
                        "Successfully synced IP ranges", now)
        IN  /\ syncConfig' = [syncConfig EXCEPT !.Status = status]
            /\ stored' = IF updateFails THEN stored ELSE status
            /\ faults' = IF updateFails THEN faults + 1 ELSE faults
            /\ calls' = Append(calls, [op |-> "update", failed |-> updateFails])
            /\ result' = reconcileResult(FALSE, updateFails)
    /\ pc' = "done"
    /\ UNCHANGED <<now, cacheVars, registryVars, remoteVars, cycle, idx, allRanges,
                   updatedProviderStatus, updatedIngressStatus, errMsg,
                   lastApply, prevApply, concVars, unitVars, regVars>>

\* an IngressConfig's settings after an edit of both
Edited(c) ==
    [updateStrategy |-> IF c.updateStrategy = "direct" THEN "incremental" ELSE "direct",
     xForwardedFor |-> ~c.xForwardedFor]

\* somebody edits the IngressConfigs between two cycles (an edit before the
\* first cycle is another initial configuration)
ChangeConfig ==
    /\ pc = "done"
    /\ cycle < MaxCycles
    /\ config' = Edited(config)
    /\ UNCHANGED <<now, faults, cacheVars, ProviderCache, IngressCache, updateStrategy,
                   xForwardedFor, remoteVars, cycleVars, concVars, unitVars, regVars>>

\* time passes; a cycle's calls take seconds of the clock's hour, so that the
\* clock is seen to advance between cycles and between a cycle's two phases;
\* between the steps of concurrent goroutines it advances anywhere
Tick ==
    /\ inst /= "none" \/ pc = "done" \/ (pc = "apply" /\ idx = 1)
    /\ now < MaxTime
    /\ now' = now + 1
    /\ UNCHANGED <<faults, cacheVars, registryVars, remoteVars, cycleVars, concVars, unitVars, regVars>>

Next ==
    \/ BeginCycle
    \/ ChangeConfig
    \/ SourceStep
    \/ TargetStep
    \/ FinalizeProviderError
    \/ FinalizeIngressError
    \/ FinalizeSuccess
    \/ Tick

Spec == Init /\ [][Next]_vars

\* a cycle is running: the SyncConfig was read and Reconcile has not returned
Running == pc \in {"collect", "apply", "providerError", "ingressError", "success"}

\* the guards of the steps of a cycle: a loop has a reference left to process,
\* or a phase has returned and Reconcile goes on to its status update
CycleEnabled ==
    \/ pc = "collect" /\ idx <= Len(syncConfig.Spec.Providers)
    \/ pc = "apply" /\ idx <= Len(syncConfig.Spec.Ingress)
    \/ pc \in {"providerError", "ingressError", "success"}

\* Reconcile runs on a worker goroutine until it returns, and each of its
\* external calls returns (with a result or an error): a cycle that can take
\* a step takes one.  This is weak fairness of Next with the enabling
\* condition of a cycle's steps written out as their guards.
SpecLive == Spec /\ ([]<>(~CycleEnabled) \/ []<><<Next>>_vars)

(***************************************************************************)
(* SpecConc: the goroutines 1..NumProcs call FetchIPRanges (inst a         *)
(* provider) or ApplyIPRanges (inst an ingress) on the one instance inst,  *)
(* as concurrent reconciles of SyncConfigs that share a reference do.      *)
(* cacheMutex is mutexW (the goroutine holding Lock, 0: none) and mutexR   *)
(* (the goroutines holding RLock).  A goroutine is at gpc[p]:              *)
(*   idle -> rlock -> check -> lock -> recheck -> request [-> get]         *)
(*        -> store_val -> store_ts -> unlock                               *)
(* and, in ApplyIPRanges, on to                                            *)
(*   diff -> find -> write [-> rule] -> ulock -> store_val -> store_ts     *)
(*        -> unlock [-> envoy]                                             *)
(***************************************************************************)
\* the sets concurrent ApplyIPRanges calls are given
DesiredSets ==
    {MkSet(<<IPRange(CidrA, <<"web">>)>>), MkSet(<<IPRange(CidrB, <<"api">>)>>)}

\* cacheTTL of the instance
TTLOf(name) ==
    IF name \in Providers THEN GitHubCacheTTL
    ELSE IF IngressType(name) = "cloudflare" THEN CloudflareCacheTTL
    ELSE IstioCacheTTL

InitConc ==
    /\ InitCommon
    /\ inst \in {"s1", "cf", "istio"}
    /\ syncConfig = [Spec |-> CHOOSE sp \in SyncSpecs : TRUE, Status |-> EmptyStatus]
    /\ config = [updateStrategy |-> "direct", xForwardedFor |-> TRUE]
    /\ updateStrategy = "direct"
    /\ xForwardedFor = TRUE
    /\ filters = PreFilters(FALSE)
    /\ configMap = PreConfigMap(FALSE)
    /\ ProviderCache = IF inst \in Providers THEN {inst} ELSE {}
    /\ IngressCache = IF inst \in Ingresses THEN {inst} ELSE {}

engineVars == <<registryVars, cycleVars, inst, unitVars, regVars>>

\* the goroutine returns from its call
Return(p, l) ==
    /\ gpc' = [gpc EXCEPT ![p] = "idle"]
    /\ loc' = [loc EXCEPT ![p] = l]

\* a goroutine enters FetchIPRanges / ApplyIPRanges
CallStart(p) ==
    /\ gpc[p] = "idle"
    /\ loc[p].calls < MaxCalls
    /\ \E d \in (IF inst \in Ingresses THEN DesiredSets ELSE {NilSet}) :
        loc' = [loc EXCEPT ![p] = [NoLoc EXCEPT !.calls = loc[p].calls + 1,
                                                !.phase = "get", !.desired = d]]
    /\ gpc' = [gpc EXCEPT ![p] = "rlock"]
    /\ UNCHANGED <<now, faults, cacheVars, remoteVars, engineVars, mutexW, mutexR,
                   stamp, gen, lastReq>>

\* cacheMutex.RLock()
RLock(p) ==
    /\ gpc[p] = "rlock"
    /\ mutexW = 0
    /\ mutexR' = mutexR \cup {p}
    /\ gpc' = [gpc EXCEPT ![p] = "check"]
    /\ UNCHANGED <<now, faults, cacheVars, remoteVars, engineVars, mutexW, loc,
                   stamp, gen, lastReq>>

\* where a goroutine goes on with the current set it got
AfterGet(p) == IF inst \in Providers THEN "idle" ELSE "diff"

\* variant: a miss that goes for Lock with RLock still held
releasesOnHit(hit) == hit

\* RUnlock after the check under RLock: deferred to the return when the cache
\* is valid, called before Lock is requested when it is not
releasesShared(hit) == TRUE

\* the check under RLock: return the cache, or RUnlock and go for Lock
Check(p) ==
    /\ gpc[p] = "check"
    /\ LET l == [loc[p] EXCEPT !.checked = TRUE,
                               !.chkNil = cachedData[inst].nil,
                               !.chkAge = now - lastFetch[inst]]
       IN  IF CacheValid(cachedData[inst], lastFetch[inst], now, TTLOf(inst))
           THEN /\ loc' = [loc EXCEPT ![p] = [l EXCEPT !.kind = "cached",
                                                       !.out = cachedData[inst],
                                                       !.cur = cachedData[inst]]]
                /\ gpc' = [gpc EXCEPT ![p] = AfterGet(p)]
           ELSE /\ loc' = [loc EXCEPT ![p] = l]
                /\ gpc' = [gpc EXCEPT ![p] = "lock"]
    /\ mutexR' = IF releasesShared(CacheValid(cachedData[inst], lastFetch[inst], now,
                                              TTLOf(inst)))
                 THEN mutexR \ {p} ELSE mutexR
    /\ UNCHANGED <<now, faults, cacheVars, remoteVars, engineVars, mutexW,
                   stamp, gen, lastReq>>

\* cacheMutex.Lock()
Lock(p) ==
    /\ gpc[p] = "lock"
    /\ mutexW = 0
    /\ mutexR = {}
    /\ mutexW' = p
    /\ gpc' = [gpc EXCEPT ![p] = "recheck"]
    /\ UNCHANGED <<now, faults, cacheVars, remoteVars, engineVars, mutexR, loc,
                   stamp, gen, lastReq>>

\* variant: no second check once the write lock is held
RecheckSkipped(data, ts, t, ttl) == FALSE

\* the double-check of the cache under the write lock
recheckValid(data, ts, t, ttl) == CacheValid(data, ts, t, ttl)

Recheck(p) ==
    /\ gpc[p] = "recheck"
    /\ LET l == [loc[p] EXCEPT !.rechecked = TRUE,
                               !.chkNil = cachedData[inst].nil,
                               !.chkAge = now - lastFetch[inst]]
       IN  IF recheckValid(cachedData[inst], lastFetch[inst], now, TTLOf(inst))
           THEN /\ loc' = [loc EXCEPT ![p] = [l EXCEPT !.kind = "cached",
                                                       !.out = cachedData[inst],
                                                       !.cur = cachedData[inst]]]
                /\ gpc' = [gpc EXCEPT ![p] = AfterGet(p)]
                /\ mutexW' = 0
           ELSE /\ loc' = [loc EXCEPT ![p] = l]
                /\ gpc' = [gpc EXCEPT ![p] = "request"]
                /\ UNCHANGED mutexW
    /\ UNCHANGED <<now, faults, cacheVars, remoteVars, engineVars, mutexR,
                   stamp, gen, lastReq>>

\* what the first external call of a refresh answers: [err, store, out, filterID];
\* store says that out is the set to cache, else the filter's details follow
requestAnswer(fails, doc) ==
    IF inst \in Providers
    THEN [err |-> fails, store |-> ~fails, filterID |-> 0,
          out |-> IF fails THEN NilSet ELSE ConvertMetadata(doc)]
    ELSE IF IngressType(inst) = "cloudflare"
    THEN [err |-> fails, store |-> ~fails /\ findFilterID(filters) = 0,
          filterID |-> IF fails THEN 0 ELSE findFilterID(filters),
          out |-> IF fails THEN NilSet ELSE NewIPRangeSet]
    ELSE IF fails \/ ~configMap.exists
    THEN [err |-> FALSE, store |-> TRUE, filterID |-> 0, out |-> NewIPRangeSet]
    ELSE LET parsed == JsonUnmarshal(configMap.data)
         IN  [err |-> parsed.err, store |-> ~parsed.err, filterID |-> 0,
              out |-> IF parsed.err THEN NilSet
                      ELSE AddAll(NewIPRangeSet, parsed.ranges, <<"istio">>)]

\* the refresh's external call under the write lock: the metadata request,
\* the filter list, the ConfigMap Get
Request(p) ==
    /\ gpc[p] = "request"
    /\ \E fails \in {FALSE} \cup MayFail({TRUE}),
          doc \in (IF inst \in Providers THEN Docs ELSE {DocNone}) :
        LET a == requestAnswer(fails, doc)
            l == [loc[p] EXCEPT
                    !.requests = @ + 1,
                    !.reqGen = gen,
                    !.rivals = {q \in Procs \ {p} : gpc[q] = "lock"},
                    !.dup = \E q \in Procs \ {p} :
                                p \in loc[q].rivals /\ loc[q].reqGen = gen,
                    !.justified = \/ ~lastReq.some
                                  \/ ~lastReq.ok
                                  \/ now - lastReq.t >= TTLOf(inst),
                    !.out = a.out, !.filterID = a.filterID, !.err = a.err]
        IN  /\ fails => (doc = CHOOSE d \in (IF inst \in Providers THEN Docs ELSE {DocNone}) : TRUE)
            /\ faults' = IF fails THEN faults + 1 ELSE faults
            /\ lastReq' = [some |-> TRUE, ok |-> ~a.err, t |-> now]
            /\ IF a.err
               THEN /\ Return(p, [l EXCEPT !.kind = "error"])
                    /\ mutexW' = 0
               ELSE /\ loc' = [loc EXCEPT ![p] = l]
                    /\ gpc' = [gpc EXCEPT ![p] = IF a.store THEN "store_val" ELSE "get"]
                    /\ UNCHANGED mutexW
    /\ UNCHANGED <<now, cacheVars, remoteVars, engineVars, mutexR, stamp, gen>>

\* Cloudflare's getFilterDetails and parseFilterExpression under the write lock
GetDetails(p) ==
    /\ gpc[p] = "get"
    /\ \E fails \in {FALSE} \cup MayFail({TRUE}) :
        /\ faults' = IF fails THEN faults + 1 ELSE faults
        /\ IF fails
           THEN /\ Return(p, [loc[p] EXCEPT !.kind = "error", !.err = TRUE])
                /\ mutexW' = 0
           ELSE /\ loc' = [loc EXCEPT ![p].out =
                            parseFilterExpression(filters[loc[p].filterID].Expression)]
                /\ gpc' = [gpc EXCEPT ![p] = "store_val"]
                /\ UNCHANGED mutexW
    /\ UNCHANGED <<now, cacheVars, remoteVars, engineVars, mutexR, stamp, gen, lastReq>>

\* cachedData = <the set>
StoreVal(p) ==
    /\ gpc[p] = "store_val"
    /\ cachedData' = [cachedData EXCEPT ![inst] = loc[p].out]
    /\ stamp' = [stamp EXCEPT !.val = <<p, loc[p].calls, loc[p].phase>>]
    /\ gpc' = [gpc EXCEPT ![p] = "store_ts"]
    /\ UNCHANGED <<now, faults, lastFetch, remoteVars, engineVars, mutexW, mutexR,
                   loc, gen, lastReq>>

\* lastFetch = time.Now()
StoreTs(p) ==
    /\ gpc[p] = "store_ts"
    /\ lastFetch' = [lastFetch EXCEPT ![inst] = now]
    /\ stamp' = [stamp EXCEPT !.ts = <<p, loc[p].calls, loc[p].phase>>]
    /\ gen' = gen + 1
    /\ loc' = [loc EXCEPT ![p].ts = now,
                          ![p].kind = IF loc[p].phase = "get" THEN "fetched" ELSE @]
    /\ gpc' = [gpc EXCEPT ![p] = "unlock"]
    /\ UNCHANGED <<now, faults, cachedData, remoteVars, engineVars, mutexW, mutexR,
                   lastReq>>

\* cacheMutex.Unlock(), and on from there
Unlock(p) ==
    /\ gpc[p] = "unlock"
    /\ mutexW' = IF mutexW = p THEN 0 ELSE mutexW
    /\ IF loc[p].phase = "get"
       THEN /\ gpc' = [gpc EXCEPT ![p] = AfterGet(p)]
            /\ loc' = [loc EXCEPT ![p].cur = loc[p].out]
       ELSE /\ gpc' = [gpc EXCEPT ![p] =
                        IF IngressType(inst) = "istio" /\ xForwardedFor THEN "envoy"
                        ELSE "idle"]
            /\ UNCHANGED loc
    /\ UNCHANGED <<now, faults, cacheVars, remoteVars, engineVars, mutexR,
                   stamp, gen, lastReq>>

\* ApplyIPRanges after GetCurrentIPRanges: the diff and the "no changes" return
DiffStep(p) ==
    /\ gpc[p] = "diff"
    /\ IF DiffIsEmpty(Diff(loc[p].cur, loc[p].desired))
       THEN Return(p, loc[p])
       ELSE IF IngressType(inst) = "cloudflare"
               /\ ~(updateStrategy = "direct" \/ Count(loc[p].cur) = 0
                    \/ updateStrategy = "incremental")
       THEN Return(p, [loc[p] EXCEPT !.err = TRUE])
       ELSE /\ gpc' = [gpc EXCEPT ![p] = "find"]
            /\ loc' = [loc EXCEPT ![p].phase = "update"]
    /\ UNCHANGED <<now, faults, cacheVars, remoteVars, engineVars, mutexW, mutexR,
                   stamp, gen, lastReq>>

\* createOrUpdateRule's findFilterID, updateConfigMap's Get
Find(p) ==
    /\ gpc[p] = "find"
    /\ \E fails \in {FALSE} \cup MayFail({TRUE}) :
        /\ faults' = IF fails THEN faults + 1 ELSE faults
        /\ IF IngressType(inst) = "cloudflare"
           THEN IF fails
                THEN Return(p, [loc[p] EXCEPT !.err = TRUE])
                ELSE /\ loc' = [loc EXCEPT ![p].filterID = findFilterID(filters)]
                     /\ gpc' = [gpc EXCEPT ![p] = "write"]
           ELSE /\ loc' = [loc EXCEPT ![p].filterID =
                            IF fails \/ ~configMap.exists THEN 0 ELSE 1]
                /\ gpc' = [gpc EXCEPT ![p] = "write"]
    /\ UNCHANGED <<now, cacheVars, remoteVars, engineVars, mutexW, mutexR,
                   stamp, gen, lastReq>>

\* the write of the remote: POST /filters or PUT /filters/<id>; Create or
\* Update of the ConfigMap
Write(p) ==
    /\ gpc[p] = "write"
    /\ \E fails \in {FALSE} \cup MayFail({TRUE}),
          keepDesc \in (IF IngressType(inst) = "cloudflare" THEN BOOLEAN ELSE {TRUE}) :
        LET expression == buildFilterExpression(loc[p].desired)
            id == loc[p].filterID
        IN  /\ faults' = IF fails THEN faults + 1 ELSE faults
            /\ IF IngressType(inst) = "cloudflare"
               THEN IF fails \/ (id = 0 /\ Len(filters) >= MaxFilters)
                    THEN /\ Return(p, [loc[p] EXCEPT !.err = TRUE])
                         /\ UNCHANGED <<filters, configMap>>
                    ELSE IF id = 0
                    THEN /\ filters' = Append(filters, [Description |-> RuleName,
                                                        Expression |-> expression])
                         /\ loc' = [loc EXCEPT ![p].filterID = Len(filters) + 1]
                         /\ gpc' = [gpc EXCEPT ![p] = "rule"]
                         /\ UNCHANGED configMap
                    ELSE /\ filters' = [filters EXCEPT ![id] =
                                [Description |-> IF keepDesc THEN @.Description ELSE "",
                                 Expression |-> expression]]
                         /\ loc' = [loc EXCEPT ![p].out = RebuildFromExpression(expression)]
                         /\ gpc' = [gpc EXCEPT ![p] = "ulock"]
                         /\ UNCHANGED configMap
               ELSE IF fails \/ (id = 0 /\ configMap.exists)
                    THEN /\ Return(p, [loc[p] EXCEPT !.err = TRUE])
                         /\ UNCHANGED <<filters, configMap>>
                    ELSE /\ configMap' = [exists |-> TRUE,
                                          data |-> JsonMarshal(GetCIDRs(loc[p].desired))]
                         /\ loc' = [loc EXCEPT ![p].out = loc[p].desired]
                         /\ gpc' = [gpc EXCEPT ![p] = "ulock"]
                         /\ UNCHANGED filters
    /\ UNCHANGED <<now, cacheVars, rules, envoyFilter, engineVars, mutexW, mutexR,
                   stamp, gen, lastReq>>

\* createFirewallRule's POST /firewall/rules
Rule(p) ==
    /\ gpc[p] = "rule"
    /\ \E fails \in {FALSE} \cup MayFail({TRUE}) :
        /\ faults' = IF fails THEN faults + 1 ELSE faults
        /\ IF fails
           THEN /\ Return(p, [loc[p] EXCEPT !.err = TRUE])
                /\ UNCHANGED rules
           ELSE /\ rules' = rules \cup {loc[p].filterID}
                /\ loc' = [loc EXCEPT ![p].out = RebuildFromExpression(RuleFilterExpression)]
                /\ gpc' = [gpc EXCEPT ![p] = "ulock"]
    /\ UNCHANGED <<now, cacheVars, filters, configMap, envoyFilter, engineVars,
                   mutexW, mutexR, stamp, gen, lastReq>>

\* variant: a cache update that does not take the lock
UpdatesUnlocked(name) == FALSE

\* whether the cache update after a write of the remote takes cacheMutex.Lock()
LocksCacheUpdate(name) == TRUE

\* cacheMutex.Lock() of the cache update
ULock(p) ==
    /\ gpc[p] = "ulock"
    /\ LocksCacheUpdate(inst) => (mutexW = 0 /\ mutexR = {})
    /\ mutexW' = IF LocksCacheUpdate(inst) THEN p ELSE mutexW
    /\ gpc' = [gpc EXCEPT ![p] = "store_val"]
    /\ UNCHANGED <<now, faults, cacheVars, remoteVars, engineVars, mutexR, loc,
                   stamp, gen, lastReq>>

\* Istio's updateEnvoyFilter
Envoy(p) ==
    /\ gpc[p] = "envoy"
    /\ \E fault \in {"none"} \cup MayFail({"getEF", "writeEF"}) :
        LET r == updateEnvoyFilter(envoyFilter, loc[p].desired, {fault} \ {"none"})
        IN  /\ faults' = IF fault = "none" THEN faults ELSE faults + 1
            /\ envoyFilter' = r.ef
            /\ Return(p, [loc[p] EXCEPT !.err = r.err])
    /\ UNCHANGED <<now, cacheVars, filters, rules, configMap, engineVars,
                   mutexW, mutexR, stamp, gen, lastReq>>

NextConc ==
    \/ \E p \in Procs :
        \/ CallStart(p)
        \/ RLock(p)
        \/ Check(p)
        \/ Lock(p)
        \/ Recheck(p)
        \/ Request(p)
        \/ GetDetails(p)
        \/ StoreVal(p)
        \/ StoreTs(p)
        \/ Unlock(p)
        \/ DiffStep(p)
        \/ Find(p)
        \/ Write(p)
        \/ Rule(p)
        \/ ULock(p)
        \/ Envoy(p)
    \/ Tick

SpecConc == InitConc /\ [][NextConc]_vars

(***************************************************************************)
(* SpecUnit: the operations of pkg/model and the two GetCurrentIPRanges,   *)
(* each called on its own.  ipSet and otherSet are two IPRangeSet        *)
(* objects, built from NewIPRangeSet() by Add; ret records the latest call *)
(* with its inputs and results.  What a GetCurrentIPRanges finds in its    *)
(* remote is what an ApplyIPRanges of ipSet stored there, as stored or as   *)
(* somebody else left it.                                                  *)
(***************************************************************************)
MaxLen == 2

\* Labels of a range, and the label lists of a filter
RangeLabels == {<<>>, <<"web">>, <<"web", "api">>}
FilterLabels == {<<>>, <<"web">>, <<"api">>}

InitUnit ==
    /\ InitCommon
    /\ inst = "none"
    /\ syncConfig = [Spec |-> CHOOSE sp \in SyncSpecs : TRUE, Status |-> EmptyStatus]
    /\ config = [updateStrategy |-> "direct", xForwardedFor |-> TRUE]
    /\ updateStrategy = "direct"
    /\ xForwardedFor = TRUE
    /\ filters = PreFilters(FALSE)
    /\ configMap = PreConfigMap(FALSE)
    /\ ProviderCache = {}
    /\ IngressCache = {}

\* what the calls of SpecUnit leave alone
restVars ==
    <<now, faults, cacheVars, registryVars, remoteVars, cycleVars, concVars, regVars>>

\* the two sets are as NewIPRangeSet and Add left them.  The other calls
\* change neither set, so the calls that can follow them are the calls that
\* can be made in their place: each run makes one of them
Built == ret.op \in {"NewIPRangeSet", "Add"}

\* Add(cidr, labels) on one of the two sets
UnitAdd ==
    /\ Built
    /\ \E cidr \in {CidrA, CidrB, CidrBad}, labels \in RangeLabels, onOther \in BOOLEAN :
        LET recv == IF onOther THEN otherSet ELSE ipSet
            r == Add(recv, cidr, labels)
        IN  /\ Len(recv.Ranges) < MaxLen
            /\ ipSet' = IF onOther THEN ipSet ELSE r.set
            /\ otherSet' = IF onOther THEN r.set ELSE otherSet
            /\ ret' = [op |-> "Add", recv |-> recv, cidr |-> cidr, labels |-> labels,
                       err |-> r.err, after |-> r.set]
    /\ UNCHANGED restVars

\* Filter(includeLabels, excludeLabels)
UnitFilter ==
    /\ Built
    /\ \E includeLabels \in FilterLabels, excludeLabels \in FilterLabels :
        ret' = [op |-> "Filter", recv |-> ipSet, includeLabels |-> includeLabels,
                excludeLabels |-> excludeLabels,
                out |-> Filter(ipSet, includeLabels, excludeLabels)]
    /\ UNCHANGED <<restVars, ipSet, otherSet>>

\* Merge(other)
UnitMerge ==
    /\ Built
    /\ ret' = [op |-> "Merge", recv |-> ipSet, other |-> otherSet, out |-> Merge(ipSet, otherSet)]
    /\ UNCHANGED <<restVars, ipSet, otherSet>>

\* Diff(other)
UnitDiff ==
    /\ Built
    /\ ret' = [op |-> "Diff", recv |-> ipSet, other |-> otherSet, out |-> Diff(ipSet, otherSet)]
    /\ UNCHANGED <<restVars, ipSet, otherSet>>

\* parseFilterExpression(buildFilterExpression(ipSet))
UnitParse ==
    /\ Built
    /\ ret' = [op |-> "parseFilterExpression", recv |-> ipSet,
               expression |-> buildFilterExpression(ipSet),
               out |-> parseFilterExpression(buildFilterExpression(ipSet))]
    /\ UNCHANGED <<restVars, ipSet, otherSet>>

\* the expressions the zone's filter may hold where ipSet was applied: the one
\* buildFilterExpression stored, one without its braces, one cut off before
\* the closing brace, one with a member that is no CIDR
StoredExpressions(set) ==
    {buildFilterExpression(set),
     <<"(ip.src in ">> \o JoinTokens(GetCIDRs(set), " ") \o <<")">>,
     <<"(ip.src in ", "{">> \o JoinTokens(GetCIDRs(set), " "),
     <<"(ip.src in ", "{">> \o JoinTokens(GetCIDRs(set) \o <<"any">>, " ") \o <<"}", ")">>}

\* the ConfigMap the cluster may hold where ipSet was applied: none, the one
\* updateConfigMap stored, one whose ip_ranges is no JSON array
StoredConfigMaps(set) ==
    {[exists |-> FALSE, data |-> <<>>],
     [exists |-> TRUE, data |-> JsonMarshal(GetCIDRs(set))],
     [exists |-> TRUE, data |-> <<"[">> \o JoinTokens(GetCIDRs(set), ",")]}

\* the cache an instance may hold when GetCurrentIPRanges is called at time
\* t: none, or otherSet cached at time 0
UnitMemos == {Memo(NilSet, 0), Memo(otherSet, 0)}

\* CloudflareIngress.GetCurrentIPRanges on a zone whose filter holds expression
UnitCloudflareRead ==
    /\ Built
    /\ \E expression \in StoredExpressions(ipSet), m \in UnitMemos, t \in 0..MaxTime,
          F \in {{}, {"list1"}, {"get"}} :
        LET zone == <<[Description |-> RuleName, Expression |-> expression]>>
        IN  ret' = [op |-> "CloudflareGetCurrentIPRanges", m |-> m, t |-> t, F |-> F,
                    expression |-> expression,
                    r |-> CloudflareGetCurrentIPRanges(m, zone, t, F)]
    /\ UNCHANGED <<restVars, ipSet, otherSet>>

\* IstioIngress.GetCurrentIPRanges on a cluster that holds the ConfigMap cm
UnitIstioRead ==
    /\ Built
    /\ \E cm \in StoredConfigMaps(ipSet), m \in UnitMemos, t \in 0..MaxTime,
          F \in {{}, {"getCM1"}} :
        ret' = [op |-> "IstioGetCurrentIPRanges", m |-> m, t |-> t, F |-> F, cm |-> cm,
                r |-> IstioGetCurrentIPRanges(m, cm, t, F)]
    /\ UNCHANGED <<restVars, ipSet, otherSet>>

\* the update strategies an instance may have been initialized with, the
\* last one unknown to ApplyIPRanges
Strategies == {"direct", "incremental", "merge"}

\* CloudflareIngress.ApplyIPRanges(ipSet) on a zone that holds otherSet under
\* the rule's name (or nothing, otherSet being empty), by an instance of each
\* update strategy
UnitCloudflareApply ==
    /\ Built
    /\ \E m \in UnitMemos, t \in 0..MaxTime, keepDesc \in BOOLEAN,
          F \in {{}, {"list2"}, {"createFilter"}, {"update"}} :
        LET zone == IF Count(otherSet) = 0 THEN <<>>
                    ELSE <<[Description |-> RuleName,
                            Expression |-> buildFilterExpression(otherSet)]>>
            zoneRules == IF Count(otherSet) = 0 THEN {} ELSE {1}
        IN  ret' = [op |-> "CloudflareApplyIPRanges", m |-> m, t |-> t, F |-> F,
                    keepDesc |-> keepDesc, zone |-> zone, desired |-> ipSet,
                    r |-> [st \in Strategies |->
                             CloudflareApplyIPRanges(m, zone, zoneRules, st, ipSet, t, F,
                                                     keepDesc)]]
    /\ UNCHANGED <<restVars, ipSet, otherSet>>

\* the lists a category of the metadata document may hold
MetadataLists == {<<>>, <<CidrA>>, <<CidrBad, CidrB>>, <<CidrA, CidrBad, CidrB>>}

\* GitHubProvider.FetchIPRanges at time t, the endpoint answering with status
\* 200 and a decodable document doc (ok) or not
UnitFetch ==
    /\ Built
    /\ \E web \in MetadataLists, api \in MetadataLists, ok \in BOOLEAN,
          m \in UnitMemos, t \in 0..MaxTime :
        LET resp == [ok |-> ok, doc |-> [Web |-> web, API |-> api]]
        IN  ret' = [op |-> "FetchIPRanges", m |-> m, t |-> t, resp |-> resp,
                    r |-> FetchIPRanges(m, t, resp)]
    /\ UNCHANGED <<restVars, ipSet, otherSet>>

\* DefaultSecretReader.GetSecret: [value, err]; secret is the Data of the
\* Secret, a function from its keys
GetSecret(secret, key, getFails) ==
    IF getFails THEN [value |-> "", err |-> TRUE]
    ELSE IF key \in DOMAIN secret THEN [value |-> secret[key], err |-> FALSE]
    ELSE IF Cardinality(DOMAIN secret) = 1
    THEN [value |-> secret[CHOOSE k \in DOMAIN secret : TRUE], err |-> FALSE]
    ELSE [value |-> "", err |-> TRUE]

\* the Data a Secret may hold: nothing, one entry, two entries
Secrets ==
    {<<>>, [k \in {"token"} |-> "t0"],
     [k \in {"token", "email"} |-> IF k = "token" THEN "t0" ELSE "e0"]}

\* GetSecret with a key of a SecretKeySelector ("": not specified)
UnitGetSecret ==
    /\ Built
    /\ \E secret \in Secrets, key \in {"", "token", "apiKey"}, getFails \in BOOLEAN :
        ret' = [op |-> "GetSecret", secret |-> secret, key |-> key, getFails |-> getFails,
                r |-> GetSecret(secret, key, getFails)]
    /\ UNCHANGED <<restVars, ipSet, otherSet>>

(***************************************************************************)
(* The sets as Go objects.  A heap is the sequence of the IPRangeSet       *)
(* objects allocated so far, a *IPRangeSet the position of one of them; a  *)
(* memo is [ref, ts], cachedData being a pointer.                          *)
(***************************************************************************)
\* result := NewIPRangeSet(), filled and returned
NewObject(h, v) == [heap |-> Append(h, v), ref |-> Len(h) + 1]

\* variant: a Filter that drops the ranges from its receiver and returns it
FilterInPlace(h, s, includeLabels, excludeLabels) ==
    [heap |-> [h EXCEPT ![s] = Filter(h[s], includeLabels, excludeLabels)], ref |-> s]

\* s.Filter(includeLabels, excludeLabels): the ranges are appended to the
\* Ranges of a new set
FilterRef(h, s, includeLabels, excludeLabels) ==
    NewObject(h, Filter(h[s], includeLabels, excludeLabels))

\* s.Merge(other): both Ranges are appended to the Ranges of a new set
MergeRef(h, s, other) == NewObject(h, Merge(h[s], h[other]))

\* s.Diff(other): added and removed are two new sets
DiffRef(h, s, other) ==
    [heap |-> h \o <<Diff(h[s], h[other]).added, Diff(h[s], h[other]).removed>>,
     added |-> Len(h) + 1, removed |-> Len(h) + 2]

\* FetchIPRanges: return p.cachedData, or build a new set, store the pointer
\* in p.cachedData and return it
FetchRef(h, m, t, doc) ==
    IF FetchIPRanges(Memo(h[m.ref], m.ts), t, [ok |-> TRUE, doc |-> doc]).requests = 0
    THEN [heap |-> h, ref |-> m.ref, memo |-> m]
    ELSE [heap |-> Append(h, ConvertMetadata(doc)), ref |-> Len(h) + 1,
          memo |-> [ref |-> Len(h) + 1, ts |-> t]]

\* what the loop body does with the set f that FetchIPRanges returned
collectFetched(st, ref, i, f) ==
    LET fl == IF Len(ref.IncludeRanges) > 0 \/ Len(ref.ExcludeRanges) > 0
              THEN FilterRef(f.heap, f.ref, ref.IncludeRanges, ref.ExcludeRanges)
              ELSE [heap |-> f.heap, ref |-> f.ref]
    IN  [heap |-> MergeRef(fl.heap, st.all, fl.ref).heap,
         all |-> Len(fl.heap) + 1,
         memos |-> [st.memos EXCEPT ![i] = f.memo],
         returned |-> Append(st.returned, f.ref),
         pubs |-> st.pubs \cup {<<f.memo.ref, f.heap[f.memo.ref]>>}]

\* collectProviderIPRanges' loop from the reference at i on; st is
\* [heap, all, memos, returned, pubs]: the aggregate's pointer, the memo of
\* each provider, the pointers the fetches returned, and the objects
\* published so far with their content at that time
RECURSIVE collectRefs(_, _, _, _, _)
collectRefs(st, refs, i, t, doc) ==
    IF i > Len(refs) THEN st
    ELSE collectRefs(collectFetched(st, refs[i], i,
                                    FetchRef(st.heap, st.memos[i], t, doc)),
                     refs, i + 1, t, doc)

\* Istio's ApplyIPRanges: GetCurrentIPRanges (the cache's pointer, or a new
\* set that becomes the cache), Diff, and updateConfigMap's
\* i.cachedData = ipRanges
applyRef(h, m, cm, ipRanges, t) ==
    LET cur == IF CacheValid(h[m.ref], m.ts, t, IstioCacheTTL)
               THEN [heap |-> h, ref |-> m.ref]
               ELSE NewObject(h, IstioGetCurrentIPRanges(Memo(h[m.ref], m.ts), cm, t,
                                                         {}).out)
        d == DiffRef(cur.heap, cur.ref, ipRanges)
    IN  IF DiffIsEmpty(Diff(cur.heap[cur.ref], h[ipRanges]))
        THEN [heap |-> d.heap, memo |-> [ref |-> cur.ref, ts |-> m.ts],
              wrote |-> FALSE, pubs |-> {<<cur.ref, cur.heap[cur.ref]>>}]
        ELSE [heap |-> d.heap, memo |-> [ref |-> ipRanges, ts |-> t], wrote |-> TRUE,
              pubs |-> {<<cur.ref, cur.heap[cur.ref]>>, <<ipRanges, d.heap[ipRanges]>>}]

\* one cycle's collectProviderIPRanges and the ApplyIPRanges of the Istio
\* ingress at time MaxTime, on a heap that holds the memos of the two
\* providers (ipSet, otherSet, stored at ts1, ts2) and of the ingress
UnitPass ==
    /\ Built
    /\ \E ts1 \in 0..MaxTime, ts2 \in 0..MaxTime, ts3 \in 0..MaxTime, doc \in Docs :
        LET h0 == <<ipSet, otherSet, MkSet(<<IPRange(CidrA, <<"istio">>)>>)>>
            c == collectRefs([heap |-> Append(h0, NewIPRangeSet), all |-> Len(h0) + 1,
                              memos |-> <<[ref |-> 1, ts |-> ts1], [ref |-> 2, ts |-> ts2]>>,
                              returned |-> <<>>, pubs |-> {}],
                             ProviderRefs, 1, MaxTime, doc)
        IN  ret' = [op |-> "Pass", h0 |-> h0, c |-> c,
                    a |-> applyRef(c.heap, [ref |-> 3, ts |-> ts3], PreConfigMap(TRUE),
                                   c.all, MaxTime)]
    /\ UNCHANGED <<restVars, ipSet, otherSet>>

NextUnit ==
    \/ UnitAdd
    \/ UnitPass
    \/ UnitCloudflareApply
    \/ UnitFetch
    \/ UnitGetSecret
    \/ UnitFilter
    \/ UnitMerge
    \/ UnitDiff
    \/ UnitParse
    \/ UnitCloudflareRead
    \/ UnitIstioRead

SpecUnit == InitUnit /\ [][NextUnit]_vars

(***************************************************************************)
(* SpecReg: getOrCreateProvider called by the cycles of several            *)
(* SyncConfigs at once.  The controller runs up to MaxConcurrentReconciles *)
(* cycles in goroutines of their own, on the one SyncReconciler; its       *)
(* ProviderCache is a Go map the goroutines read and assign with no lock.  *)
(* An assignment to a map is not atomic: it begins and it ends, and an     *)
(* access of another goroutine in between is a data race, after which the  *)
(* read may have found the key or not.  Instances are numbered per name in *)
(* the order their Init returned.                                          *)
(***************************************************************************)
InitReg ==
    /\ InitCommon
    /\ inst = "none"
    /\ syncConfig = [Spec |-> CHOOSE sp \in SyncSpecs : TRUE, Status |-> EmptyStatus]
    /\ config = [updateStrategy |-> "direct", xForwardedFor |-> TRUE]
    /\ updateStrategy = "direct"
    /\ xForwardedFor = TRUE
    /\ filters = PreFilters(FALSE)
    /\ configMap = PreConfigMap(FALSE)
    /\ ProviderCache = {}
    /\ IngressCache = {}

\* what getOrCreateProvider leaves alone
regRest ==
    <<now, cacheVars, IngressCache, config, updateStrategy, xForwardedFor, remoteVars,
      cycleVars, concVars, unitVars>>

\* some other goroutine is inside an assignment to the map
Assigning(p) == \E q \in Procs \ {p} : getter[q].pc = "storing"

\* a cycle reaches getOrCreateProvider for the ProviderConfig name
GetterCall(p) ==
    /\ getter[p].pc = "idle"
    /\ getter[p].calls < MaxCalls
    /\ \E name \in Providers :
        getter' = [getter EXCEPT ![p] = [NoGetter EXCEPT !.pc = "lookup", !.name = name,
                                                         !.calls = getter[p].calls + 1]]
    /\ UNCHANGED <<faults, ProviderCache, instanceOf, made, raced, regRest>>

\* provider, ok := r.ProviderCache[providerConfig.Name]; if ok, return it
GetterLookup(p) ==
    /\ getter[p].pc = "lookup"
    /\ LET name == getter[p].name
           found == instanceOf[name] /= 0
       IN  \E ok \in (IF Assigning(p) THEN {found, FALSE} ELSE {found}) :
            getter' = [getter EXCEPT ![p] =
                          IF ok THEN [@ EXCEPT !.pc = "idle", !.got = instanceOf[name]]
                          ELSE [@ EXCEPT !.pc = "init"]]
    /\ raced' = (raced \/ Assigning(p))
    /\ UNCHANGED <<faults, ProviderCache, instanceOf, made, regRest>>

\* providers.Get, the options with the secrets read, providerInstance.Init:
\* an error is returned, or the goroutine holds a new initialized instance
GetterInit(p) ==
    /\ getter[p].pc = "init"
    /\ LET name == getter[p].name
       IN  \E fails \in {FALSE} \cup MayFail({TRUE}) :
            IF fails
            THEN /\ getter' = [getter EXCEPT ![p] = [@ EXCEPT !.pc = "idle", !.err = TRUE]]
                 /\ faults' = faults + 1
                 /\ UNCHANGED made
            ELSE /\ made' = [made EXCEPT ![name] = @ + 1]
                 /\ getter' = [getter EXCEPT ![p] = [@ EXCEPT !.pc = "store",
                                                              !.mine = made[name] + 1]]
                 /\ UNCHANGED faults
    /\ UNCHANGED <<ProviderCache, instanceOf, raced, regRest>>

\* r.ProviderCache[providerConfig.Name] = providerInstance begins
GetterStore(p) ==
    /\ getter[p].pc = "store"
    /\ getter' = [getter EXCEPT ![p] = [@ EXCEPT !.pc = "storing"]]
    /\ raced' = (raced \/ Assigning(p))
    /\ UNCHANGED <<faults, ProviderCache, instanceOf, made, regRest>>

\* the assignment ends; return providerInstance, nil
GetterStored(p) ==
    /\ getter[p].pc = "storing"
    /\ instanceOf' = [instanceOf EXCEPT ![getter[p].name] = getter[p].mine]
    /\ ProviderCache' = ProviderCache \cup {getter[p].name}
    /\ getter' = [getter EXCEPT ![p] = [@ EXCEPT !.pc = "idle", !.got = getter[p].mine]]
    /\ UNCHANGED <<faults, made, raced, regRest>>

NextReg ==
    \/ \E p \in Procs : GetterCall(p)
    \/ \E p \in Procs : GetterLookup(p)
    \/ \E p \in Procs : GetterInit(p)
    \/ \E p \in Procs : GetterStore(p)
    \/ \E p \in Procs : GetterStored(p)

SpecReg == InitReg /\ [][NextReg]_vars

(***************************************************************************)
(* What the claims speak of.                                               *)
(***************************************************************************)
\* the iterations of the two loops the running cycle has made so far
SourceEvents == SelectSeq(calls, LAMBDA e : e.op = "fetch")
TargetEvents == SelectSeq(calls, LAMBDA e : e.op = "apply")
\* the calls of r.Status().Update the running cycle has made
UpdateEvents == SelectSeq(calls, LAMBDA e : e.op = "update")

\* the outcome of an iteration, from what the environment did to it
SourceFailed(e) == e.fault /= "none"
TargetFailed(e) == e.fault \in {"cfg", "create"} \/ (e.called /\ e.err)

\* the status of the Ready condition of a SyncConfigStatus ("" when absent)
ReadyOf(status) ==
    IF \E i \in 1..Len(status.Conditions) : status.Conditions[i].Type = "Ready"
    THEN LET i == CHOOSE k \in 1..Len(status.Conditions) :
                    status.Conditions[k].Type = "Ready"
         IN  status.Conditions[i].Status
    ELSE ""

\* CIDR membership of a set
Members(s) == {s.Ranges[i].CIDR : i \in 1..Len(s.Ranges)}

\* CIDR membership the remote of a target holds: the CIDRs in the expressions
\* of the zone's filters, the CIDRs in the ConfigMap's document
CidrTokens(tokens) == {tokens[i] : i \in {k \in 1..Len(tokens) : ValidCIDR(tokens[k])}}
RemoteMembers(name) ==
    IF IngressType(name) = "cloudflare"
    THEN UNION {CidrTokens(filters[i].Expression) : i \in 1..Len(filters)}
    ELSE IF configMap.exists THEN CidrTokens(configMap.data) ELSE {}

\* the ranges of a fetched set a provider reference lets through: some label
\* is included (or no include label is given) and no label is excluded
Admitted(out, ref) ==
    {r \in SeqToSet(out.Ranges) :
        /\ (ref.IncludeRanges = <<>>
            \/ SeqToSet(r.Labels) \cap SeqToSet(ref.IncludeRanges) /= {})
        /\ SeqToSet(r.Labels) \cap SeqToSet(ref.ExcludeRanges) = {}}
RefOf(name) ==
    CHOOSE ref \in SeqToSet(syncConfig.Spec.Providers) : ref.Name = name

(***************************************************************************)
(* C1.  Idempotent apply: when ApplyIPRanges(desired) returned nil and the *)
(* next ApplyIPRanges on the same instance gets the same desired set, no   *)
(* external call having failed and nobody else writing the remote, the     *)
(* second call issues no write.                                            *)
(***************************************************************************)
C1_SecondApplyWrites ==
    \A n \in Ingresses :
        (/\ faults = 0
         /\ prevApply[n].op = "apply"
         /\ lastApply[n].op = "apply"
         /\ ~prevApply[n].err
         /\ prevApply[n].desired = lastApply[n].desired)
        => lastApply[n].writes = <<>>

(***************************************************************************)
(* C2.  No-op apply: an ApplyIPRanges whose current set (the result of     *)
(* GetCurrentIPRanges) has the CIDR membership of the desired set returns  *)
(* nil and issues no write; a call that issues a write is one whose        *)
(* current and desired sets differ in membership.                          *)
(***************************************************************************)
C2_NoOpApply ==
    \A i \in 1..Len(TargetEvents) :
        LET e == TargetEvents[i]
        IN  e.called =>
              /\ (~e.current.nil /\ Members(e.current) = Members(e.desired))
                    => (e.writes = <<>> /\ ~e.err)
              /\ (e.writes /= <<>>)
                    => (~e.current.nil /\ Members(e.current) /= Members(e.desired))

\* an apply of a non-empty desired set found nothing to change
C2_Witness ==
    \E i \in 1..Len(TargetEvents) :
        LET e == TargetEvents[i]
        IN  /\ e.called /\ ~e.err /\ e.writes = <<>>
            /\ Count(e.desired) > 0
            /\ Members(e.current) = Members(e.desired)

(***************************************************************************)
(* C3.  Sync postcondition: after a cycle that ends Ready=True with a      *)
(* target's item "Success", the CIDR membership that target's remote holds *)
(* is the membership of the cycle's aggregate (here: in runs where no      *)
(* external call failed and the remote kept every filter's description).   *)
(***************************************************************************)
C3_RemoteIsAggregate ==
    (/\ pc = "done"
     /\ faults = 0
     /\ \A k \in 1..Len(filters) : filters[k].Description = RuleName
     /\ ReadyOf(syncConfig.Status) = "True")
    => \A i \in 1..Len(syncConfig.Status.IngressStatus) :
          LET item == syncConfig.Status.IngressStatus[i]
          IN  item.Status = "Success" => RemoteMembers(item.Name) = Members(allRanges)

(***************************************************************************)
(* C4.  Fail-mode abort at sources: with failureMode "fail", once a source *)
(* has failed (ProviderConfig lookup, construction or fetch) the cycle     *)
(* processes no later source, makes no iteration of the target loop, and   *)
(* ends with Ready=False.                                                  *)
(***************************************************************************)
C4_FailModeSourceAbort ==
    \A i \in 1..Len(SourceEvents) :
        (FailFast(syncConfig.Spec) /\ SourceFailed(SourceEvents[i]))
        => /\ Len(SourceEvents) = i
           /\ TargetEvents = <<>>
           /\ pc \in {"providerError", "done"}
           /\ (pc = "done" => ReadyOf(syncConfig.Status) = "False")

\* the first of two sources failed in fail mode and the cycle has ended
C4_Witness ==
    /\ pc = "done"
    /\ FailFast(syncConfig.Spec)
    /\ Len(SourceEvents) = 1
    /\ SourceFailed(SourceEvents[1])
    /\ Len(syncConfig.Spec.Providers) = 2

(***************************************************************************)
(* C5.  Continue-mode partial failure: with failureMode "continue", when   *)
(* one source fails and another succeeds, the cycle is not aborted and     *)
(* ends on Reconcile's success branch, the failed source's item is         *)
(* "Error", and every ApplyIPRanges gets exactly the ranges the references *)
(* admit from the sets the successful fetches returned.                    *)
(***************************************************************************)
C5_ContinueModePartialFailure ==
    LET failed == {i \in 1..Len(SourceEvents) : SourceFailed(SourceEvents[i])}
        succeeded == (1..Len(SourceEvents)) \ failed
        expected == UNION {Admitted(SourceEvents[i].out, RefOf(SourceEvents[i].name)) :
                            i \in succeeded}
    IN  (/\ pc = "done"
         /\ syncConfig.Spec.FailureMode = "continue"
         /\ failed /= {}
         /\ succeeded /= {})
        => /\ Len(SourceEvents) = Len(syncConfig.Spec.Providers)
           /\ Len(TargetEvents) = Len(syncConfig.Spec.Ingress)
           /\ ReadyOf(syncConfig.Status) = "True"
           /\ \A i \in failed :
                /\ syncConfig.Status.ProviderStatus[i].Name = SourceEvents[i].name
                /\ syncConfig.Status.ProviderStatus[i].Status = "Error"
           /\ \A j \in 1..Len(TargetEvents) :
                TargetEvents[j].called
                    => SeqToSet(TargetEvents[j].desired.Ranges) = expected

\* the first source failed, the second delivered ranges that were applied
C5_Witness ==
    /\ pc = "done"
    /\ syncConfig.Spec.FailureMode = "continue"
    /\ Len(SourceEvents) = 2
    /\ SourceFailed(SourceEvents[1])
    /\ ~SourceFailed(SourceEvents[2])
    /\ \E j \in 1..Len(TargetEvents) :
        /\ TargetEvents[j].called
        /\ Count(TargetEvents[j].desired) > 0
        /\ TargetEvents[j].writes /= <<>>

(***************************************************************************)
(* C6.  Ready condition: at the end of every cycle Ready is True if and    *)
(* only if every source item and every target item of the cycle is         *)
(* "Success".                                                              *)
(***************************************************************************)
C6_ReadyIffAllSucceeded ==
    pc = "done"
    => (ReadyOf(syncConfig.Status) = "True"
        <=> /\ Len(updatedProviderStatus) = Len(syncConfig.Spec.Providers)
            /\ Len(updatedIngressStatus) = Len(syncConfig.Spec.Ingress)
            /\ \A i \in 1..Len(updatedProviderStatus) :
                    updatedProviderStatus[i].Status = "Success"
            /\ \A i \in 1..Len(updatedIngressStatus) :
                    updatedIngressStatus[i].Status = "Success")

(***************************************************************************)
(* C7.  Fail-mode abort at targets: with failureMode "fail", once the      *)
(* target at position i has failed (IngressConfig lookup, construction or  *)
(* apply) no later target gets an iteration, the cycle ends with           *)
(* Ready=False, and what the targets before i wrote is still in their      *)
(* remotes.                                                                *)
(***************************************************************************)
C7_FailModeTargetAbort ==
    \A i \in 1..Len(TargetEvents) :
        (FailFast(syncConfig.Spec) /\ TargetFailed(TargetEvents[i]))
        => /\ Len(TargetEvents) = i
           /\ pc \in {"ingressError", "done"}
           /\ (pc = "done" => ReadyOf(syncConfig.Status) = "False")
           /\ \A j \in 1..(i-1) :
                (TargetEvents[j].called /\ TargetEvents[j].writes /= <<>>)
                    => Members(TargetEvents[j].desired)
                            \subseteq RemoteMembers(TargetEvents[j].name)

\* the second target failed after the first one had written its remote
C7_Witness ==
    /\ pc = "done"
    /\ FailFast(syncConfig.Spec)
    /\ Len(TargetEvents) = 2
    /\ TargetFailed(TargetEvents[2])
    /\ TargetEvents[1].writes /= <<>>
    /\ ~TargetEvents[1].err

\* the cache a goroutine's check looked at was absent or too old
SawStale(l) == l.chkNil \/ l.chkAge >= TTLOf(inst)

(***************************************************************************)
(* C8.  Single-flight refresh, as stated: of the concurrent FetchIPRanges  *)
(* callers that saw a stale cache, at most one issues the upstream         *)
(* request; no caller that was waiting for the write lock while another's  *)
(* request was under way issues its own request before the cache was       *)
(* updated.                                                                *)
(***************************************************************************)
C8_OneRequestPerWindow ==
    inst \in Providers => \A q \in Procs : ~loc[q].dup

(***************************************************************************)
(* C8, amended.  Requests of one instance are serialized by the write      *)
(* lock, and a caller issues a request only if its re-check under the      *)
(* write lock still found the cache stale, which is the case only when no  *)
(* earlier request succeeded less than a TTL before: waiting callers       *)
(* return the refreshed cache without a request when the refresh           *)
(* succeeded, and issue their own request when it failed.                  *)
(***************************************************************************)
C8_SerializedRefresh ==
    inst \in Providers =>
        /\ Cardinality({p \in Procs : gpc[p] \in {"request", "store_val", "store_ts",
                                                 "unlock"}}) <= 1
        /\ \A p \in Procs :
            /\ gpc[p] \in {"request", "store_val", "store_ts", "unlock"} => mutexW = p
            /\ loc[p].requests > 0 => (loc[p].justified /\ SawStale(loc[p]))
            /\ (loc[p].rechecked /\ ~SawStale(loc[p]))
                    => (loc[p].kind = "cached" /\ loc[p].requests = 0)

\* two callers saw the stale cache; one refreshed it, the other waited for the
\* lock and returned the refreshed cache from its re-check without a request
C8_Witness ==
    /\ inst \in Providers
    /\ \E p, q \in Procs :
        /\ p /= q
        /\ q \in loc[p].rivals
        /\ loc[p].kind = "fetched"
        /\ loc[q].rechecked
        /\ loc[q].kind = "cached"
        /\ loc[q].requests = 0
        /\ loc[q].out = loc[p].out

(***************************************************************************)
(* C9.  TTL memoization: FetchIPRanges returns the cache without a request *)
(* exactly when, at its deciding check, a cache exists and is younger than *)
(* the TTL; otherwise it issues exactly one request and, when that         *)
(* succeeds, replaces cachedData and lastFetch.                            *)
(***************************************************************************)
C9_TTLMemoization ==
    inst \in Providers =>
        \A p \in Procs :
            LET l == loc[p]
            IN  /\ l.kind = "cached"
                    => (~l.chkNil /\ l.chkAge < GitHubCacheTTL /\ l.requests = 0)
                /\ (l.checked /\ gpc[p] \notin {"check", "lock", "recheck"})
                    => (l.kind = "cached" <=> ~SawStale(l))
                /\ l.requests <= 1
                /\ l.kind \in {"fetched", "error"} => l.requests = 1
                /\ (gpc[p] = "idle" /\ l.checked /\ l.kind /= "cached") => l.requests = 1
                /\ (gpc[p] = "unlock" /\ l.kind = "fetched")
                    => (cachedData[inst] = l.out /\ lastFetch[inst] = l.ts)

\* one call refreshed the cache, a later check found it fresh and returned it,
\* and a check found a cache as old as the TTL and went for a request
C9_Witness ==
    /\ inst \in Providers
    /\ \E p, q \in Procs :
        /\ loc[p].kind = "cached" /\ ~loc[p].chkNil
        /\ loc[q].kind = "fetched" /\ ~loc[q].chkNil /\ loc[q].chkAge = GitHubCacheTTL

(***************************************************************************)
(* C10.  No torn cache reads: in every provider and ingress instance       *)
(* cachedData and lastFetch are written only by the goroutine that holds   *)
(* the write lock, so that whenever a goroutine holds the read lock the    *)
(* two fields are from one completed write.                                *)
(***************************************************************************)
C10_NoTornReads ==
    /\ \A p \in Procs : gpc[p] \in {"store_val", "store_ts"} => mutexW = p
    /\ stamp.val /= stamp.ts => (mutexW /= 0 /\ gpc[mutexW] = "store_ts")
    /\ mutexR /= {} => (mutexW = 0 /\ stamp.val = stamp.ts)

\* a goroutine holds the read lock of an ingress instance whose cache was
\* written by the update of an ApplyIPRanges
C10_Witness ==
    /\ inst \in Ingresses
    /\ mutexR /= {}
    /\ stamp.val[3] = "update"
    /\ stamp.val = stamp.ts

C12_FreshStatus ==
    (pc = "done") =>
        /\ \A i \in 1..Len(syncConfig.Status.ProviderStatus) :
            /\ i <= Len(updatedProviderStatus)
            /\ syncConfig.Status.ProviderStatus[i] = updatedProviderStatus[i]
        /\ \A i \in 1..Len(syncConfig.Status.IngressStatus) :
            /\ i <= Len(updatedIngressStatus)
            /\ syncConfig.Status.IngressStatus[i] = updatedIngressStatus[i]

(***************************************************************************)
(* C13.  Item statuses survive an abort: when a phase returned an error in *)
(* fail mode, the status the cycle hands to Status().Update holds every    *)
(* item the loops appended before the return, the failing item with        *)
(* "Error" and its message included.                                       *)
(***************************************************************************)
C13_AbortKeepsItems ==
    (pc = "done" /\ FailFast(syncConfig.Spec) /\ ReadyOf(syncConfig.Status) = "False") =>
        /\ \A i \in 1..Len(updatedProviderStatus) :
            /\ i <= Len(syncConfig.Status.ProviderStatus)
            /\ syncConfig.Status.ProviderStatus[i] = updatedProviderStatus[i]
        /\ \A i \in 1..Len(updatedIngressStatus) :
            /\ i <= Len(syncConfig.Status.IngressStatus)
            /\ syncConfig.Status.IngressStatus[i] = updatedIngressStatus[i]

(***************************************************************************)
(* C14.  Filter keeps a range exactly when (includeLabels is empty or a    *)
(* label of the range is in includeLabels) and not (excludeLabels is       *)
(* non-empty and a label of the range is in excludeLabels); the kept       *)
(* ranges come in the receiver's order; a range matching both lists is     *)
(* dropped; Filter([], []) returns the receiver's ranges; the receiver is  *)
(* left as it was.                                                         *)
(***************************************************************************)
C14_FilterLaw ==
    (ret.op = "Filter") =>
        LET inc == SeqToSet(ret.includeLabels)
            exc == SeqToSet(ret.excludeLabels)
            kept(r) == /\ (inc = {} \/ SeqToSet(r.Labels) \cap inc /= {})
                       /\ ~(exc /= {} /\ SeqToSet(r.Labels) \cap exc /= {})
        IN  /\ ~ret.out.nil
            /\ ret.out.Ranges = SelectSeq(ret.recv.Ranges, kept)
            /\ \A i \in 1..Len(ret.out.Ranges) :
                    SeqToSet(ret.out.Ranges[i].Labels) \cap exc = {}
            /\ (inc = {} /\ exc = {}) => ret.out.Ranges = ret.recv.Ranges
            /\ ipSet = ret.recv

\* Filter(["web"], ["api"]) kept the range labelled web and dropped the one
\* labelled web and api
C14_Witness ==
    /\ ret.op = "Filter"
    /\ ret.includeLabels = <<"web">>
    /\ ret.excludeLabels = <<"api">>
    /\ Len(ret.recv.Ranges) = 2
    /\ ret.recv.Ranges[1].Labels = <<"web", "api">>
    /\ ret.recv.Ranges[2].Labels = <<"web">>
    /\ ret.out.Ranges = <<ret.recv.Ranges[2]>>

(***************************************************************************)
(* C15.  Diff laws: added holds no CIDR of the receiver, removed holds no  *)
(* CIDR of the argument, (the receiver's CIDRs with added's) without       *)
(* removed's are the argument's CIDRs, and two sets with the same CIDR     *)
(* membership diff as empty whatever their labels and multiplicities.      *)
(***************************************************************************)
C15_DiffLaws ==
    (ret.op = "Diff") =>
        LET A == Members(ret.recv)
            B == Members(ret.other)
            added == {r.CIDR : r \in ret.out.added}
            removed == {r.CIDR : r \in ret.out.removed}
        IN  /\ added \cap A = {}
            /\ removed \cap B = {}
            /\ (A \cup added) \ removed = B
            /\ (A = B) => (ret.out.added = {} /\ ret.out.removed = {})
            /\ ret.out.added \subseteq SeqToSet(ret.other.Ranges)
            /\ ret.out.removed \subseteq SeqToSet(ret.recv.Ranges)

\* a set holding one CIDR twice under different labels was diffed against a
\* set holding it once under other labels, and the diff was empty
C15_Witness ==
    /\ ret.op = "Diff"
    /\ Len(ret.recv.Ranges) = 2
    /\ ret.recv.Ranges[1].CIDR = ret.recv.Ranges[2].CIDR
    /\ ret.recv.Ranges[1].Labels /= ret.recv.Ranges[2].Labels
    /\ Len(ret.other.Ranges) = 1
    /\ ret.other.Ranges[1].CIDR = ret.recv.Ranges[1].CIDR
    /\ ret.other.Ranges[1] \notin SeqToSet(ret.recv.Ranges)
    /\ ret.out.added = {}
    /\ ret.out.removed = {}

(***************************************************************************)
(* C16.  Expression round trip: parseFilterExpression applied to what      *)
(* buildFilterExpression builds from a set gives the set's CIDRs, same     *)
(* members, order and multiplicity, the empty set included; the set of     *)
(* 10.0.0.0/8 and 10.1.0.0/16 builds "(ip.src in {10.0.0.0/8               *)
(* 10.1.0.0/16})".                                                         *)
(***************************************************************************)
C16_RoundTrip ==
    (ret.op = "parseFilterExpression") =>
        /\ ~ret.out.nil
        /\ GetCIDRs(ret.out) = GetCIDRs(ret.recv)
        /\ (GetCIDRs(ret.recv) = <<CidrA, CidrB>>)
                => ret.expression = <<"(ip.src in ", "{", CidrA, " ", CidrB, "}", ")">>

\* the set of 10.0.0.0/8 and 10.1.0.0/16 went through the round trip
C16_Witness ==
    /\ ret.op = "parseFilterExpression"
    /\ GetCIDRs(ret.recv) = <<CidrA, CidrB>>
    /\ ret.expression = <<"(ip.src in ", "{", CidrA, " ", CidrB, "}", ")">>
    /\ GetCIDRs(ret.out) = <<CidrA, CidrB>>

(***************************************************************************)
(* C17.  Add with a CIDR that does not parse returns an error and leaves   *)
(* the set's ranges as they were; with a valid CIDR it appends one range   *)
(* at the end and changes no other; so every range of every set built has  *)
(* a CIDR that parses.                                                     *)
(***************************************************************************)
C17_AddLaw ==
    /\ (ret.op = "Add") =>
            IF ValidCIDR(ret.cidr)
            THEN /\ ~ret.err
                 /\ ret.after.Ranges =
                        Append(ret.recv.Ranges, [CIDR |-> ret.cidr, Labels |-> ret.labels])
            ELSE /\ ret.err
                 /\ ret.after = ret.recv
    /\ \A set \in {ipSet, otherSet} :
            \A i \in 1..Len(set.Ranges) : ValidCIDR(set.Ranges[i].CIDR)
    /\ (ret.op \in {"Filter", "Merge", "parseFilterExpression"}) =>
            \A i \in 1..Len(ret.out.Ranges) : ValidCIDR(ret.out.Ranges[i].CIDR)

\* an Add of 10.0.0.0/33 to a set of one range returned an error
C17_Witness ==
    /\ ret.op = "Add"
    /\ ret.cidr = CidrBad
    /\ ret.err
    /\ Len(ret.recv.Ranges) = 1
    /\ ret.after = ret.recv

(***************************************************************************)
(* C18.  Merge returns the receiver's ranges followed by the argument's,   *)
(* none left out, so that the count of the result is the sum of the two    *)
(* counts; neither operand is changed.                                     *)
(***************************************************************************)
C18_MergeLaw ==
    (ret.op = "Merge") =>
        /\ ~ret.out.nil
        /\ Count(ret.out) = Count(ret.recv) + Count(ret.other)
        /\ \A i \in 1..Count(ret.recv) : ret.out.Ranges[i] = ret.recv.Ranges[i]
        /\ \A i \in 1..Count(ret.other) :
                ret.out.Ranges[Count(ret.recv) + i] = ret.other.Ranges[i]
        /\ ipSet = ret.recv
        /\ otherSet = ret.other

\* two sets that share a range were merged, and the result holds it twice
C18_Witness ==
    /\ ret.op = "Merge"
    /\ Count(ret.recv) = 2
    /\ Count(ret.other) = 1
    /\ ret.other.Ranges[1] = ret.recv.Ranges[2]
    /\ Count(ret.out) = 3
    /\ ret.out.Ranges[3] = ret.out.Ranges[2]

(***************************************************************************)
(* C19.  The Cloudflare GetCurrentIPRanges that reads its filter (no valid *)
(* cache, no call failing) and finds an expression that is not of the form *)
(* "(ip.src in {...})", nor the one buildFilterExpression stores for the   *)
(* empty set, returns an error (here: for an expression that names a       *)
(* CIDR).                                                                  *)
(***************************************************************************)
C19_MalformedIsError ==
    LET e == ret.expression
        formed == /\ Len(e) >= 4
                  /\ e[1] = "(ip.src in " /\ e[2] = "{"
                  /\ e[Len(e) - 1] = "}" /\ e[Len(e)] = ")"
    IN  (/\ ret.op = "CloudflareGetCurrentIPRanges"
         /\ ~CacheValid(ret.m.data, ret.m.ts, ret.t, CloudflareCacheTTL)
         /\ ret.F = {}
         /\ ~formed
         /\ e /= buildFilterExpression(NewIPRangeSet)
         /\ CidrTokens(e) /= {})
        => ret.r.err

(***************************************************************************)
(* C20.  The Istio GetCurrentIPRanges whose Get of the ConfigMap fails     *)
(* for another reason than the ConfigMap being absent returns an error and *)
(* leaves cachedData and lastFetch as they were (here: with a ConfigMap    *)
(* that holds a CIDR); an absent ConfigMap gives the empty set.            *)
(***************************************************************************)
C20_UnreadableIsError ==
    (/\ ret.op = "IstioGetCurrentIPRanges"
     /\ ~CacheValid(ret.m.data, ret.m.ts, ret.t, IstioCacheTTL))
    => /\ ("getCM1" \in ret.F /\ ret.cm.exists /\ CidrTokens(ret.cm.data) /= {})
            => (ret.r.err /\ ret.r.memo = ret.m)
       /\ (ret.F = {} /\ ~ret.cm.exists) => (~ret.r.err /\ Count(ret.r.out) = 0)

(***************************************************************************)
(* C21.  The EnvoyFilter tracks the desired set: with xForwardedFor on,    *)
(* after an Istio ApplyIPRanges that returned nil and wrote, the CIDRs the *)
(* EnvoyFilter trusts are the CIDRs of the desired set of that call, none  *)
(* when the desired set is empty.                                          *)
(***************************************************************************)
C21_EnvoyFilterTracksDesired ==
    LET e == lastApply["istio"]
    IN  (e.op = "apply" /\ ~e.err /\ e.writes /= <<>> /\ xForwardedFor)
        => (IF envoyFilter.exists THEN envoyFilter.cidrs ELSE <<>>) = GetCIDRs(e.desired)

(***************************************************************************)
(* C22.  Secret lookup: when the Secret was read, GetSecret returns the    *)
(* value under the key when the key is present, the value of the only      *)
(* entry when no key is given and the Secret holds exactly one entry, and  *)
(* an error in every other case.                                           *)
(***************************************************************************)
C22_SecretLookup ==
    (ret.op = "GetSecret" /\ ~ret.getFails) =>
        IF ret.key \in DOMAIN ret.secret
        THEN ~ret.r.err /\ ret.r.value = ret.secret[ret.key]
        ELSE IF ret.key = "" /\ Cardinality(DOMAIN ret.secret) = 1
        THEN ~ret.r.err /\ \A k \in DOMAIN ret.secret : ret.r.value = ret.secret[k]
        ELSE ret.r.err

\* the entries of a metadata document in the order the conversion walks it:
\* each CIDR of a category with the category as its label
DocEntries(doc) ==
    [i \in 1..Len(doc.Web) |-> IPRange(doc.Web[i], <<"web">>)]
        \o [i \in 1..Len(doc.API) |-> IPRange(doc.API[i], <<"api">>)]

C24_FixedDelays ==
    /\ RequeueAfterSuccess /= RequeueAfterFailure
    /\ (pc = "done") =>
          result.RequeueAfter = IF result.err THEN RequeueAfterFailure
                                ELSE RequeueAfterSuccess

\* the place of a call in a cycle: the source phase, the target phase, the
\* write of the status
PhaseOf(e) == IF e.op = "fetch" THEN 1 ELSE IF e.op = "apply" THEN 2 ELSE 3
RefNames(refs, n) == [i \in 1..n |-> IF i <= Len(refs) THEN refs[i].Name ELSE ""]
EventNames(events) == [i \in 1..Len(events) |-> events[i].name]

(***************************************************************************)
(* C25.  Phase ordering within a cycle: the calls of a cycle are the       *)
(* iterations over the source references, then the iterations over the     *)
(* target references, then the write of the status.  Sources and targets   *)
(* are processed one at a time in reference order; no target is processed  *)
(* before every source reference has been processed; the status is written *)
(* once, after the last target was processed or after the cycle aborted.   *)
(***************************************************************************)
C25_PhaseOrder ==
    LET sp == syncConfig.Spec
        targets == [i \in 1..Len(sp.Ingress) |-> [Name |-> sp.Ingress[i]]]
    IN  /\ \A i, j \in 1..Len(calls) : (i < j) => PhaseOf(calls[i]) <= PhaseOf(calls[j])
        /\ EventNames(SourceEvents) = RefNames(sp.Providers, Len(SourceEvents))
        /\ EventNames(TargetEvents) = RefNames(targets, Len(TargetEvents))
        /\ (TargetEvents /= <<>>) => (Len(SourceEvents) = Len(sp.Providers))
        /\ Len(UpdateEvents) <= 1
        /\ (UpdateEvents /= <<>>) =>
              \/ Len(TargetEvents) = Len(sp.Ingress)
              \/ /\ FailFast(sp)
                 /\ Len(calls) > 1
                 /\ calls[Len(calls) - 1].err

\* a cycle in continue mode has ended, one of its sources having failed
C25_Witness ==
    /\ pc = "done"
    /\ ~FailFast(syncConfig.Spec)
    /\ Len(SourceEvents) = 2
    /\ SourceEvents[1].err
    /\ Len(TargetEvents) = 2
    /\ Len(UpdateEvents) = 1

\* the concatenation, in the order of the source references, of what each
\* source that succeeded fetched and its reference admits
RECURSIVE AggregateOf(_, _)
AggregateOf(events, refs) ==
    IF events = <<>> THEN <<>>
    ELSE LET e == Head(events)
             part == IF e.err THEN <<>>
                     ELSE SelectSeq(e.out.Ranges,
                                    LAMBDA r : r \in Admitted(e.out, Head(refs)))
         IN  part \o AggregateOf(Tail(events), Tail(refs))

(***************************************************************************)
(* C26.  Aggregate content: the set ApplyIPRanges is called with, for      *)
(* every target of a cycle, holds the ranges the sources that succeeded in *)
(* that cycle fetched and their references admit by include and exclude    *)
(* labels, source after source in reference order, each source's ranges in *)
(* the order fetched; every target of the cycle is given the same set.     *)
(***************************************************************************)
C26_AggregateContent ==
    \A i \in 1..Len(TargetEvents) :
        LET e == TargetEvents[i]
        IN  /\ ~e.desired.nil
            /\ e.desired.Ranges = AggregateOf(SourceEvents, syncConfig.Spec.Providers)
            /\ e.desired = TargetEvents[1].desired

\* both targets were applied the aggregate of two sources: the first, whose
\* reference includes the label web, gave 10.0.0.0/8 of the two ranges it
\* fetched, the second gave both
C26_Witness ==
    /\ Len(TargetEvents) = 2
    /\ TargetEvents[1].called /\ TargetEvents[2].called
    /\ Len(SourceEvents) = 2
    /\ Count(SourceEvents[1].out) = 2
    /\ TargetEvents[2].desired.Ranges =
          <<IPRange(CidrA, <<"web">>), IPRange(CidrA, <<"web">>), IPRange(CidrB, <<"api">>)>>

\* a status list holds one item per iteration, in the order of the
\* iterations: the item of an iteration that failed is "Error" with a
\* message, the item of one that succeeded is "Success"
ItemsComplete(items, events) ==
    /\ Len(items) = Len(events)
    /\ \A i \in 1..Len(items) :
        /\ items[i].Name = events[i].name
        /\ items[i].Status \in {"Success", "Error"}
        /\ (items[i].Status = "Error") <=> events[i].err
        /\ (items[i].Status = "Error") => (items[i].Error /= "")

(***************************************************************************)
(* C27.  Continue-mode completeness: a cycle with failureMode "continue"   *)
(* processes every source reference and every target reference whatever    *)
(* failed before; the ProviderStatus and IngressStatus lists of the status *)
(* it hands to Status().Update hold exactly one item per reference, in     *)
(* reference order, each "Success" or "Error" and never "Pending", the     *)
(* "Error" items with a non-empty Error.                                   *)
(***************************************************************************)
C27_ContinueCompleteness ==
    (pc = "done" /\ ~FailFast(syncConfig.Spec)) =>
        LET sp == syncConfig.Spec
        IN  /\ EventNames(SourceEvents) = RefNames(sp.Providers, Len(sp.Providers))
            /\ EventNames(TargetEvents) = [i \in 1..Len(sp.Ingress) |-> sp.Ingress[i]]
            /\ ItemsComplete(syncConfig.Status.ProviderStatus, SourceEvents)
            /\ ItemsComplete(syncConfig.Status.IngressStatus, TargetEvents)

\* the first target failed and the second was processed all the same
C27_Witness ==
    /\ pc = "done"
    /\ ~FailFast(syncConfig.Spec)
    /\ Len(TargetEvents) = 2
    /\ TargetEvents[1].err
    /\ syncConfig.Status.IngressStatus[1].Status = "Error"
    /\ syncConfig.Status.IngressStatus[2].Status = "Success"

(***************************************************************************)
(* C28.  One instance per name under concurrency: with cycles running      *)
(* concurrently on the process-wide registry, at most one instance is ever *)
(* constructed and initialized for a name, every call that returned an     *)
(* instance for a name returned the one the registry holds, and the        *)
(* registry map is never accessed while another goroutine assigns to it.   *)
(***************************************************************************)
C28_OneInstancePerName ==
    /\ ~raced
    /\ \A n \in Providers : made[n] <= 1
    /\ \A p \in Procs :
        (getter[p].pc = "idle" /\ getter[p].got /= 0)
            => getter[p].got = instanceOf[getter[p].name]

C30_StrategiesEquivalent ==
    (ret.op = "CloudflareApplyIPRanges") => (ret.r["incremental"] = ret.r["direct"])

\* the zone held ranges and the desired set differed from them, so that the
\* strategy was consulted: both instances replaced the rule's expression,
\* one of a strategy unknown to ApplyIPRanges returned an error
C30_Witness ==
    /\ ret.op = "CloudflareApplyIPRanges"
    /\ Count(ret.r["incremental"].current) > 0
    /\ Count(ret.desired) > 0
    /\ ~ret.r["incremental"].err
    /\ ret.r["incremental"].writes /= <<>>
    /\ ret.r["merge"].err

(***************************************************************************)
(* C31.  Create-or-replace keeps a single locatable rule: once the zone    *)
(* holds a filter, after an ApplyIPRanges that returned nil the zone holds *)
(* exactly one filter under the configured rule name, and its expression   *)
(* names the CIDRs of the set that call was given (here: in runs where    *)
(* the remote kept every filter's description).                            *)
(***************************************************************************)
C31_SingleLocatableRule ==
    LET e == lastApply["cf"]
        named == {k \in 1..Len(filters) : filters[k].Description = RuleName}
    IN  (/\ e.op = "apply" /\ ~e.err
         /\ filters /= <<>>
         /\ \A k \in 1..Len(filters) : filters[k].Description = RuleName)
        => /\ Cardinality(named) = 1
           /\ \A k \in named : CidrTokens(filters[k].Expression) = Members(e.desired)

(***************************************************************************)
(* C32.  A failed refresh leaves the memo untouched: when the request of a *)
(* FetchIPRanges fails (transport error, non-success status, undecodable   *)
(* body), the call returns an error and no set, not the expired cache;     *)
(* cachedData and lastFetch are as they were; and a FetchIPRanges that     *)
(* follows, at that time or later, makes the request again.                *)
(***************************************************************************)
C32_FailedRefreshKeepsMemo ==
    (ret.op = "FetchIPRanges" /\ ret.r.requests = 1 /\ ~ret.resp.ok) =>
        /\ ret.r.err
        /\ ret.r.out = NilSet
        /\ ret.r.memo = ret.m
        /\ \A t2 \in ret.t..MaxTime, ok \in BOOLEAN :
              FetchIPRanges(ret.r.memo, t2, [ok |-> ok, doc |-> ret.resp.doc]).requests = 1

\* the request failed while the instance held an expired cache with ranges
C32_Witness ==
    /\ ret.op = "FetchIPRanges"
    /\ ret.r.requests = 1
    /\ ~ret.resp.ok
    /\ ret.r.err
    /\ ~ret.m.data.nil
    /\ Count(ret.m.data) > 0
    /\ ret.r.memo.data = ret.m.data

(***************************************************************************)
(* C33.  Concurrent applies keep memo and remote coherent: when the        *)
(* goroutines have called ApplyIPRanges on one instance (here the Istio    *)
(* instance, no external call failing) and every call has returned nil,    *)
(* the instance's cachedData names the CIDRs the remote holds.             *)
(***************************************************************************)
C33_MemoMatchesRemote ==
    (/\ inst = "istio"
     /\ faults = 0
     /\ \A p \in Procs : gpc[p] = "idle" /\ loc[p].calls > 0 /\ ~loc[p].err)
    => Members(cachedData[inst]) = RemoteMembers(inst)

(***************************************************************************)
(* C34.  A failed apply is retried: when an ApplyIPRanges of the Istio     *)
(* instance returned an error because the write of the EnvoyFilter failed  *)
(* after the write of the ConfigMap, the next ApplyIPRanges with the same  *)
(* desired set attempts the write of the EnvoyFilter again.                *)
(***************************************************************************)
C34_FilterWriteRetried ==
    LET a == prevApply["istio"]
        b == lastApply["istio"]
        EnvoyWrites == {"Create EnvoyFilter", "Update EnvoyFilter"}
    IN  (/\ a.op = "apply" /\ a.err /\ a.fault = "writeEF"
         /\ b.op = "apply" /\ b.fault = "none"
         /\ Members(b.desired) = Members(a.desired))
        => \E i \in 1..Len(b.writes) : b.writes[i] \in EnvoyWrites

(***************************************************************************)
(* C35.  The empty aggregate is still applied: in a cycle of a SyncConfig  *)
(* with failureMode continue where every provider failed and no call of    *)
(* the apply phase failed, ApplyIPRanges was called on every ingress with  *)
(* the empty set, no ingress' remote holds a range any more, and the cycle *)
(* ended with the Ready condition True.                                    *)
(***************************************************************************)
AllSourcesFailed ==
    /\ pc = "done"
    /\ ~FailFast(syncConfig.Spec)
    /\ Len(SourceEvents) = Len(syncConfig.Spec.Providers)
    /\ \A i \in 1..Len(SourceEvents) : SourceFailed(SourceEvents[i])
    /\ Len(TargetEvents) = Len(syncConfig.Spec.Ingress)
    /\ \A i \in 1..Len(TargetEvents) : TargetEvents[i].fault = "none"
    /\ \A i \in 1..Len(UpdateEvents) : ~UpdateEvents[i].failed

C35_EmptyAggregateApplied ==
    AllSourcesFailed =>
        /\ \A i \in 1..Len(TargetEvents) :
              /\ TargetEvents[i].called
              /\ Count(TargetEvents[i].desired) = 0
              /\ ~TargetEvents[i].err
        /\ \A name \in Ingresses : RemoteMembers(name) = {}
        /\ ReadyOf(syncConfig.Status) = "True"
        /\ ReadyOf(stored) = "True"

(***************************************************************************)
(* C36.  No deadlock in the cache locks.  A goroutine that requests        *)
(* cacheMutex (RLock or Lock) holds neither RLock nor Lock of the          *)
(* instance, and holds none once its call returned; whoever holds the      *)
(* mutex is at a step that needs no lock, so that with a call in progress  *)
(* some goroutine can take a step; and every step of a call moves it       *)
(* forward in the order of the call's steps, which ends with its return.   *)
(***************************************************************************)
\* the places where a goroutine waits for cacheMutex
Requesting == {"rlock", "lock", "ulock"}

\* the goroutine's next step can be taken
CanStep(p) ==
    \/ gpc[p] \notin Requesting \cup {"idle"}
    \/ gpc[p] = "rlock" /\ mutexW = 0
    \/ gpc[p] \in {"lock", "ulock"} /\ mutexW = 0 /\ mutexR = {}

\* the position of a step in the order of a call's steps
StepOrder ==
    <<"rlock", "check", "lock", "recheck", "request", "get", "store_val", "store_ts",
      "unlock", "diff", "find", "write", "rule", "ulock">>
StepRank(g, phase) ==
    IF g = "envoy" THEN 30
    ELSE LET k == CHOOSE i \in 1..Len(StepOrder) : StepOrder[i] = g
         IN  IF phase = "update" /\ g \in {"store_val", "store_ts", "unlock"}
             THEN k + 10 ELSE k

LocksFree ==
    /\ \A p \in Procs :
          gpc[p] \in Requesting \cup {"idle"} => (p \notin mutexR /\ mutexW /= p)
    /\ mutexW /= 0 => mutexR = {}
    /\ (\E p \in Procs : gpc[p] /= "idle") => (\E p \in Procs : CanStep(p))

CallAdvances ==
    \A p \in Procs :
        (gpc[p] /= "idle" /\ gpc'[p] /= "idle" /\ gpc'[p] /= gpc[p])
            => StepRank(gpc'[p], loc'[p].phase) > StepRank(gpc[p], loc[p].phase)

C36_NoLockDeadlock == [](LocksFree) /\ [][CallAdvances]_vars

\* both goroutines' calls have returned, one of them having refreshed the
\* cache while the other waited for Lock
C36_Witness ==
    /\ \A p \in Procs : gpc[p] = "idle" /\ loc[p].calls > 0
    /\ \E p \in Procs : loc[p].rivals /= {}
    /\ mutexW = 0 /\ mutexR = {}

(***************************************************************************)
(* C37.  Memoized sets are not mutated after publication.  In a cycle's    *)
(* collect phase and Istio apply, the pointer each FetchIPRanges returns   *)
(* is the provider's cachedData, the pointer the Istio ingress stores as   *)
(* cachedData is the cycle's aggregate, every object that existed before   *)
(* the cycle has the content it had, and every object that was a memo at   *)
(* some point of the cycle has at the end the content it had then: a memo  *)
(* changes by the replacement of the pointer only.                         *)
(***************************************************************************)
C37_MemoNotMutated ==
    ret.op = "Pass" =>
        /\ \A i \in 1..Len(ret.c.returned) : ret.c.returned[i] = ret.c.memos[i].ref
        /\ ret.a.wrote => ret.a.memo.ref = ret.c.all
        /\ \A id \in 1..Len(ret.h0) : ret.a.heap[id] = ret.h0[id]
        /\ \A pub \in ret.c.pubs \cup ret.a.pubs : ret.a.heap[pub[1]] = pub[2]

\* the first provider's memo is reused and the filter drops a range of it,
\* the second provider's memo is replaced, and the aggregate, which holds
\* ranges, becomes the memo of the ingress
C37_Witness ==
    /\ ret.op = "Pass"
    /\ ret.c.memos[1].ref = 1
    /\ Count(Filter(ret.h0[1], ProviderRefs[1].IncludeRanges,
                    ProviderRefs[1].ExcludeRanges)) < Count(ret.h0[1])
    /\ ret.c.memos[2].ref > Len(ret.h0)
    /\ ret.a.wrote
    /\ Count(ret.a.heap[ret.a.memo.ref]) > 1

(***************************************************************************)
(* C38.  Attempt and success timestamps.  A cycle that starts sets         *)
(* LastSyncTime to the time of its start, and a status it stores carries   *)
(* that time.  LastSuccessfulSync changes, in the cycle's status and in    *)
(* the stored one, only in the success branch of Reconcile, which is       *)
(* reached when neither phase returned an error, and then to the current   *)
(* time, never to an earlier one.  A status holds at most one condition    *)
(* of type Ready, and the transition time of the stored one changes only   *)
(* together with its status.                                               *)
(***************************************************************************)
\* the conditions of type Ready of a status, and the transition time of the
\* first of them (NoTime when there is none)
ReadyConditions(status) ==
    {i \in 1..Len(status.Conditions) : status.Conditions[i].Type = "Ready"}
ReadyTime(status) ==
    IF ReadyConditions(status) = {} THEN NoTime
    ELSE status.Conditions[CHOOSE i \in ReadyConditions(status) :
                              \A j \in ReadyConditions(status) : i <= j].LastTransitionTime

OneReady ==
    /\ Cardinality(ReadyConditions(stored)) <= 1
    /\ Cardinality(ReadyConditions(syncConfig.Status)) <= 1
    /\ stored.LastSuccessfulSync <= now
    /\ cycle > 0 => syncConfig.Status.LastSyncTime /= NoTime

StampsKept ==
    /\ cycle' /= cycle => syncConfig'.Status.LastSyncTime = now
    /\ stored' /= stored => stored'.LastSyncTime = syncConfig.Status.LastSyncTime
    /\ stored'.LastSuccessfulSync /= stored.LastSuccessfulSync
          => /\ pc = "success"
             /\ stored'.LastSuccessfulSync = now
             /\ stored'.LastSuccessfulSync >= stored.LastSuccessfulSync
    /\ syncConfig'.Status.LastSuccessfulSync /= syncConfig.Status.LastSuccessfulSync
          => \/ pc = "success" /\ syncConfig'.Status.LastSuccessfulSync = now
             \/ cycle' /= cycle /\ syncConfig'.Status.LastSuccessfulSync
                                      = stored.LastSuccessfulSync
    /\ ReadyTime(stored') /= ReadyTime(stored) => ReadyOf(stored') /= ReadyOf(stored)

C38_Timestamps == [](OneReady) /\ [][StampsKept]_vars

\* a cycle that failed after the clock advanced has stored its status over
\* the one of a successful cycle
C38_Witness ==
    /\ pc = "done" /\ cycle = 2 /\ result.err
    /\ stored.LastSyncTime = 1
    /\ stored.LastSuccessfulSync = 0
    /\ ReadyOf(stored) = "False"
    /\ ReadyTime(stored) = 1

=============================================================================
